---------------------------- MODULE Spec2Model ----------------------------
(***************************************************************************)
(* CryptoSentinel: the cryptanalysis engine (the crack operations of the   *)
(* Caesar, XOR, Vigenere and Substitution ciphers) and the statistical     *)
(* primitives they share.                                                  *)
(*                                                                         *)
(* Representation.                                                         *)
(*   - A Python str is a sequence of code points, a bytes object a         *)
(*     sequence of integers 0..255.                                        *)
(*   - None is the empty tuple <<>>, a present value x is <<x>>.           *)
(*   - A float is a fixed-point number [inf, hi, lo] standing for          *)
(*     hi + lo / 10^9 (lo in 0 .. 10^9 - 1, hi any integer), or for        *)
(*     float('inf') when inf is TRUE.  The source rounds chi_squared and   *)
(*     calculate_ioc to 6 decimals, confidences to 4.                      *)
(*   - A heuristic or trigram score is an exact fraction <<num, den>>.     *)
(***************************************************************************)
EXTENDS Integers, Sequences, FiniteSets, TLC

VARIABLES
    cipher,                 \* the cipher whose crack() is being called
    data,                   \* the argument of crack(): [kind, val]
    pc,                     \* "call", "loop" (Substitution's search) or "done"
    result,                 \* None or <<the dictionary crack() returned>>
    raised,                 \* "none" or the exception crack() raised
    trials,                 \* how many trial decryptions crack() has performed
    best_key,               \* Substitution.crack locals, meaningful in "loop"
    best_score,
    current_key,
    current_score,
    attempts,
    no_improvement_count,
    iteration,
    failures_left           \* how many calls of self.decrypt will still raise

vars == <<cipher, data, pc, result, raised, trials, best_key, best_score,
          current_key, current_score, attempts, no_improvement_count, iteration,
          failures_left>>

None == <<>>
Some(x) == <<x>>

(***************************************************************************)
(* Characters (str.isalpha, str.isupper, str.upper) on the code points the *)
(* model's texts are made of: ASCII and the Latin-1 letters E-acute.       *)
(***************************************************************************)
OrdA == 65
OrdLowerA == 97
ALPHABET_SIZE == 26

AsciiUpper == 65 .. 90
AsciiLower == 97 .. 122
OtherUpper == {201}
OtherLower == {233}

IsUpper(c) == c \in AsciiUpper \cup OtherUpper
IsLower(c) == c \in AsciiLower \cup OtherLower
IsAlpha(c) == IsUpper(c) \/ IsLower(c)
Upper(c) == IF IsLower(c) THEN c - 32 ELSE c
Lower(c) == IF IsUpper(c) THEN c + 32 ELSE c

UpperStr(s) == [i \in 1 .. Len(s) |-> Upper(s[i])]
LowerStr(s) == [i \in 1 .. Len(s) |-> Lower(s[i])]

\* ''.join(c.upper() for c in data if c.isalpha())
FilterAlphaUpper(s) == UpperStr(SelectSeq(s, IsAlpha))

AnyAlpha(s) == \E i \in 1 .. Len(s) : IsAlpha(s[i])

(***************************************************************************)
(* Fixed-point arithmetic standing for the source's floats.                *)
(***************************************************************************)
FxOne == 1000 * 1000 * 1000

Fx(h, l) == [inf |-> FALSE, hi |-> h, lo |-> l]
Inf == [inf |-> TRUE, hi |-> 0, lo |-> 0]
FxInt(n) == Fx(n, 0)
FxZero == Fx(0, 0)

FxLess(a, b) ==
    /\ ~a.inf
    /\ \/ b.inf
       \/ a.hi < b.hi
       \/ a.hi = b.hi /\ a.lo < b.lo

FxAdd(a, b) ==
    IF a.inf \/ b.inf THEN Inf
    ELSE LET l == a.lo + b.lo
         IN  IF l >= FxOne THEN Fx(a.hi + b.hi + 1, l - FxOne)
                           ELSE Fx(a.hi + b.hi, l)

FxNeg(a) == IF a.lo = 0 THEN Fx(-a.hi, 0) ELSE Fx(-a.hi - 1, FxOne - a.lo)

FxSub(a, b) == FxAdd(a, FxNeg(b))

\* the first 9 digits of r / b after the decimal point, three at a time, for
\* 0 <= r < b < 2^31 / 1000
FracDigits(r, b) ==
    LET d1 == (r * 1000) \div b
        r1 == (r * 1000) % b
        d2 == (r1 * 1000) \div b
        r2 == (r1 * 1000) % b
        d3 == (r2 * 1000) \div b
    IN  IF r = 0 THEN 0 ELSE (d1 * 1000000) + (d2 * 1000) + d3

\* a / b for integers a >= 0, b > 0
FxDivPos(a, b) == Fx(a \div b, FracDigits(a % b, b))

\* a / b for integers a, b with b /= 0
FxDiv(a, b) ==
    IF (a >= 0) = (b > 0)
    THEN FxDivPos(IF a >= 0 THEN a ELSE -a, IF b > 0 THEN b ELSE -b)
    ELSE FxNeg(FxDivPos(IF a >= 0 THEN a ELSE -a, IF b > 0 THEN b ELSE -b))

\* the first 9 digits after the decimal point of (r + l / 10^9) / n, three at
\* a time, for 0 <= r < n < 2^31 / 1000 and 0 <= l < 10^9
FxDivDigits(r, l, n) ==
    LET c1 == (r * 1000) + (l \div 1000000)
        c2 == ((c1 % n) * 1000) + ((l \div 1000) % 1000)
        c3 == ((c2 % n) * 1000) + (l % 1000)
    IN  ((c1 \div n) * 1000000) + ((c2 \div n) * 1000) + (c3 \div n)

\* x / n for a fixed-point x >= 0 and an integer n > 0
FxDivInt(x, n) ==
    IF x.inf THEN Inf
    ELSE Fx(x.hi \div n, FxDivDigits(x.hi % n, x.lo, n))

\* round(x, d) for d <= 9 decimals, to the nearest, ties to even, of the
\* number x, or of a number just above x that has the same 9 decimals (more)
FxRoundSticky(x, d, more) ==
    IF x.inf THEN Inf
    ELSE LET unit == 10 ^ (9 - d)
             q == x.lo \div unit
             r == x.lo % unit
             up == (2 * r > unit) \/ (2 * r = unit /\ (more \/ q % 2 = 1))
             l == (IF up THEN q + 1 ELSE q) * unit
         IN  IF l >= FxOne THEN Fx(x.hi + 1, l - FxOne) ELSE Fx(x.hi, l)

FxRound(x, d) == FxRoundSticky(x, d, FALSE)

(***************************************************************************)
(* for k in range(from, to): st = Body(k, st), in ascending order.  The    *)
(* range is split in halves, the first half being evaluated before the     *)
(* second is entered.                                                      *)
(***************************************************************************)
RECURSIVE ForRange(_, _, _, _)
ForRange(Body(_, _), from, to, st) ==
    IF to <= from THEN st
    ELSE IF to = from + 1 THEN Body(from, st)
    ELSE LET mid == (from + to) \div 2
             first == ForRange(Body, from, mid, st)
         IN  IF first = first THEN ForRange(Body, mid, to, first) ELSE st

(***************************************************************************)
(* utils/math_helpers.py: chi_squared.  expected[i] is the fraction        *)
(* <<num, den>> (den > 0); the sum of (O - E)^2 / E is computed as the sum *)
(* of O^2 / E, kept to 18 decimals, plus the sum of E minus twice the sum  *)
(* of O, which is the same number and keeps every intermediate value       *)
(* small.                                                                  *)
(***************************************************************************)
\* the remainder left by FracDigits(r, b)
FracRem(r, b) == (((((r * 1000) % b) * 1000) % b) * 1000) % b

\* O^2 / E to 18 decimals: hi + lo / 10^9 + ex / 10^18
ChiQuotient(obs, exp) ==
    [hi |-> (obs * obs * exp[2]) \div exp[1],
     lo |-> FracDigits((obs * obs * exp[2]) % exp[1], exp[1]),
     ex |-> FracDigits(FracRem((obs * obs * exp[2]) % exp[1], exp[1]), exp[1])]

ChiTerm(obs, exp) ==
    [quotients |-> ChiQuotient(obs, exp), expected |-> FxDiv(exp[1], exp[2]), observed |-> obs]

Carry(n) == IF n >= FxOne THEN 1 ELSE 0

ChiAdd(a, b) ==
    [quotients |->
        [hi |-> a.quotients.hi + b.quotients.hi
                + Carry(a.quotients.lo + b.quotients.lo
                        + Carry(a.quotients.ex + b.quotients.ex)),
         lo |-> (a.quotients.lo + b.quotients.lo
                 + Carry(a.quotients.ex + b.quotients.ex)) % FxOne,
         ex |-> (a.quotients.ex + b.quotients.ex) % FxOne],
     expected |-> FxAdd(a.expected, b.expected),
     observed |-> a.observed + b.observed]

\* the sums over the terms lo .. hi, by halves
RECURSIVE ChiSum(_, _, _, _)
ChiSum(observed, expected, lo, hi) ==
    IF lo > hi
    THEN [quotients |-> [hi |-> 0, lo |-> 0, ex |-> 0], expected |-> FxZero, observed |-> 0]
    ELSE IF lo = hi THEN ChiTerm(observed[lo], expected[lo])
    ELSE ChiAdd(ChiSum(observed, expected, lo, (lo + hi) \div 2),
                ChiSum(observed, expected, (lo + hi) \div 2 + 1, hi))

\* round(chi_sq, 6)
ChiRound(sum) ==
    FxRoundSticky(FxAdd(Fx(sum.quotients.hi, sum.quotients.lo),
                        FxAdd(sum.expected, FxInt(-2 * sum.observed))),
                  6, sum.quotients.ex > 0)

\* the messages of the two ValueErrors of chi_squared
SameLengthMessage == "Lists must have same length"
ZeroExpectedMessage == "Expected frequencies cannot contain zero values"

\* a chi_squared that looks for a zero in expected before it compares the
\* lengths
chi_squared_zero_first(observed, expected) ==
    IF \E i \in 1 .. Len(expected) : expected[i][1] = 0
    THEN [raised |-> "ValueError", message |-> ZeroExpectedMessage, value |-> FxZero]
    ELSE IF Len(observed) /= Len(expected)
    THEN [raised |-> "ValueError", message |-> SameLengthMessage, value |-> FxZero]
    ELSE [raised |-> "none", message |-> "",
          value |-> ChiRound(ChiSum(observed, expected, 1, Len(observed)))]

chi_squared(observed, expected) ==
    IF Len(observed) /= Len(expected)
    THEN [raised |-> "ValueError", message |-> SameLengthMessage, value |-> FxZero]
    ELSE IF \E i \in 1 .. Len(expected) : expected[i][1] = 0
    THEN [raised |-> "ValueError", message |-> ZeroExpectedMessage, value |-> FxZero]
    ELSE [raised |-> "none", message |-> "",
          value |-> ChiRound(ChiSum(observed, expected, 1, Len(observed)))]

(***************************************************************************)
(* ciphers/caesar.py                                                       *)
(***************************************************************************)
\* ENGLISH_FREQ, percentages, in thousandths
ENGLISH_FREQ ==
    <<8167, 1492, 2782, 4253, 12702, 2228, 2015, 6094, 6966,
      153, 772, 4025, 2406, 6749, 7507, 1929, 95, 5987,
      6327, 9056, 2758, 978, 2360, 150, 1974, 74>>

\* letter_counts after the counting loop of _score_text
LetterCounts(letters) ==
    [k \in 1 .. ALPHABET_SIZE |->
        Cardinality({i \in 1 .. Len(letters) : letters[i] - OrdA = k - 1})]

\* expected = [(freq / 100.0) * total_letters for freq in ENGLISH_FREQ]
ExpectedCounts(total_letters) ==
    [k \in 1 .. ALPHABET_SIZE |-> <<ENGLISH_FREQ[k] * total_letters, 100000>>]

\* the chi-squared score of the counted letters; an exception of chi_squared
\* is swallowed into float('inf')
ScoreLetters(letters) ==
    IF Len(letters) = 0 THEN [raised |-> "none", value |-> Inf]
    ELSE IF \E i \in 1 .. Len(letters) : letters[i] - OrdA \notin 0 .. ALPHABET_SIZE - 1
    THEN [raised |-> "IndexError", value |-> Inf]
    ELSE LET r == chi_squared(LetterCounts(letters), ExpectedCounts(Len(letters)))
         IN  [raised |-> "none", value |-> IF r.raised = "none" THEN r.value ELSE Inf]

\* CaesarCipher._score_text
CaesarScoreText(text) == ScoreLetters(SelectSeq(UpperStr(text), IsAlpha))

\* the transform of CaesarCipher.encrypt on one character
CaesarShiftChar(c, key) ==
    IF IsAlpha(c)
    THEN LET base == IF IsUpper(c) THEN OrdA ELSE OrdLowerA
         IN  base + ((c - base + key) % ALPHABET_SIZE)
    ELSE c

\* CaesarCipher.encrypt, for a str and an integer key
CaesarEncrypt(text, key) ==
    IF key \notin 0 .. ALPHABET_SIZE - 1
    THEN [raised |-> "InvalidKeyError", value |-> <<>>]
    ELSE [raised |-> "none",
          value |-> [i \in 1 .. Len(text) |-> CaesarShiftChar(text[i], key)]]

\* CaesarCipher.decrypt
\* a decrypt that shifts forwards as encrypt does
CaesarDecryptForward(text, key) == CaesarEncrypt(text, key)

CaesarDecrypt(text, key) == CaesarEncrypt(text, (ALPHABET_SIZE - key) % ALPHABET_SIZE)

\* confidence = max(0.0, min(1.0, 1.0 - best_score / 500.0)), then
\* round(confidence, 4), in units of 1/10000
ChiConfidence(score) ==
    IF score.inf \/ score.hi >= 500 THEN 0
    ELSE IF score.hi < 0 THEN 10000
    ELSE LET f == 20 * (score.lo \div 1000)
             whole == f \div 1000000
             frac == f % 1000000
             down == 10000 - 20 * score.hi - whole
         IN  IF frac > 500000 \/ (frac = 500000 /\ down % 2 = 1)
             THEN down - 1 ELSE down

\* a loop body that compares with <= and so moves to a later key of equal
\* score
CaesarStepMovesOnTie(text, key, st) ==
    LET dec == CaesarEncrypt(text, (ALPHABET_SIZE - key) % ALPHABET_SIZE)
        sc == IF dec.raised = "none" THEN CaesarScoreText(dec.value)
              ELSE [raised |-> dec.raised, value |-> Inf]
        tried == [st EXCEPT !.trials = @ + 1]
    IN  IF sc.raised /= "none" THEN tried
        ELSE LET scored == [tried EXCEPT !.scores = (key :> sc.value) @@ @]
             IN  IF ~FxLess(st.best_score, sc.value)
                 THEN [scored EXCEPT !.best_score = sc.value,
                                     !.best_key = key,
                                     !.best_plaintext = dec.value]
                 ELSE scored

\* the body of the for loop of CaesarCipher.crack for one key; an exception
\* of decrypt or _score_text skips the key
CaesarStep(text, key, st) ==
    LET dec == CaesarDecrypt(text, key)
        sc == IF dec.raised = "none" THEN CaesarScoreText(dec.value)
              ELSE [raised |-> dec.raised, value |-> Inf]
        tried == [st EXCEPT !.trials = @ + 1]
    IN  IF sc.raised /= "none" THEN tried
        ELSE LET scored == [tried EXCEPT !.scores = (key :> sc.value) @@ @]
             IN  IF FxLess(sc.value, st.best_score)
                 THEN [scored EXCEPT !.best_score = sc.value,
                                     !.best_key = key,
                                     !.best_plaintext = dec.value]
                 ELSE scored

\* for key in range(self.ALPHABET_SIZE)
CaesarSearch(text, st) ==
    LET Body(key, acc) == CaesarStep(text, key, acc)
    IN  ForRange(Body, 0, ALPHABET_SIZE, st)

\* CaesarCipher.crack: [raised, result, trials]
CaesarCrack(d) ==
    IF d.kind /= "str"
    THEN [raised |-> "ValidationError", result |-> None, trials |-> 0]
    ELSE IF Len(d.val) = 0 \/ ~AnyAlpha(d.val)
    THEN [raised |-> "none", trials |-> 0,
          result |-> Some([success |-> FALSE, key |-> None, plaintext |-> None,
                           confidence |-> 0, method |-> "frequency_analysis",
                           attempts |-> 0, scores |-> <<>>,
                           error |-> "No alphabetic characters to analyze"])]
    ELSE LET st == CaesarSearch(d.val,
                       [best_key |-> 0, best_plaintext |-> <<>>, best_score |-> Inf,
                        scores |-> <<>>, trials |-> 0])
         IN  [raised |-> "none", trials |-> st.trials,
              result |-> Some([success |-> TRUE, key |-> Some(st.best_key),
                               plaintext |-> Some(st.best_plaintext),
                               confidence |-> ChiConfidence(st.best_score),
                               method |-> "frequency_analysis",
                               attempts |-> ALPHABET_SIZE, scores |-> st.scores,
                               best_chi_squared |-> FxRound(st.best_score, 4)])]

(***************************************************************************)
(* ciphers/xor.py                                                          *)
(***************************************************************************)
\* COMMON_WORDS
COMMON_WORDS ==
    {
      <<116, 104, 101>>,   \* the
      <<98, 101>>,   \* be
      <<116, 111>>,   \* to
      <<111, 102>>,   \* of
      <<97, 110, 100>>,   \* and
      <<97>>,   \* a
      <<105, 110>>,   \* in
      <<116, 104, 97, 116>>,   \* that
      <<104, 97, 118, 101>>,   \* have
      <<105>>,   \* i
      <<105, 116>>,   \* it
      <<102, 111, 114>>,   \* for
      <<110, 111, 116>>,   \* not
      <<111, 110>>,   \* on
      <<119, 105, 116, 104>>,   \* with
      <<104, 101>>,   \* he
      <<97, 115>>,   \* as
      <<121, 111, 117>>,   \* you
      <<100, 111>>,   \* do
      <<97, 116>>,   \* at
      <<116, 104, 105, 115>>,   \* this
      <<98, 117, 116>>,   \* but
      <<104, 105, 115>>,   \* his
      <<98, 121>>,   \* by
      <<102, 114, 111, 109>>,   \* from
      <<116, 104, 101, 121>>,   \* they
      <<119, 101>>,   \* we
      <<115, 97, 121>>,   \* say
      <<104, 101, 114>>,   \* her
      <<115, 104, 101>>,   \* she
      <<111, 114>>,   \* or
      <<97, 110>>,   \* an
      <<119, 105, 108, 108>>,   \* will
      <<109, 121>>,   \* my
      <<111, 110, 101>>,   \* one
      <<97, 108, 108>>,   \* all
      <<119, 111, 117, 108, 100>>,   \* would
      <<116, 104, 101, 114, 101>>,   \* there
      <<116, 104, 101, 105, 114>>,   \* their
      <<119, 104, 97, 116>>    \* what
    }

\* a ^ b on non-negative integers
RECURSIVE BitXor(_, _)
BitXor(a, b) ==
    IF a = 0 THEN b
    ELSE IF b = 0 THEN a
    ELSE ((a + b) % 2) + 2 * BitXor(a \div 2, b \div 2)

\* bytes([data_bytes[i] ^ key for i in range(len(data_bytes))])
XorBytesWith(bytes, key) == [i \in 1 .. Len(bytes) |-> BitXor(bytes[i], key)]

\* bytes.decode('utf-8'): [ok, text]; a code point per well-formed sequence
\* (no overlong form, no surrogate, nothing above U+10FFFF)
IsCont(b) == b \in 128 .. 191

\* the decoder at the byte of index k (from 0): inside a sequence already
\* decoded, or at the first byte of the next one
Utf8Step(b, k, st) ==
    LET i == k + 1
        b0 == b[i]
        has(n) == i + n <= Len(b) /\ \A j \in 1 .. n : IsCont(b[i + j])
        decoded(cp, n) == [ok |-> TRUE, text |-> Append(st.text, cp), next |-> i + n]
    IN  IF ~st.ok \/ i < st.next THEN st
        ELSE IF b0 < 128 THEN decoded(b0, 1)
        ELSE IF b0 \in 194 .. 223 /\ has(1)
        THEN decoded((b0 - 192) * 64 + (b[i + 1] - 128), 2)
        ELSE IF /\ b0 \in 224 .. 239 /\ has(2)
                /\ (b0 = 224 => b[i + 1] >= 160)
                /\ (b0 = 237 => b[i + 1] <= 159)
        THEN decoded((b0 - 224) * 4096 + (b[i + 1] - 128) * 64 + (b[i + 2] - 128), 3)
        ELSE IF /\ b0 \in 240 .. 244 /\ has(3)
                /\ (b0 = 240 => b[i + 1] >= 144)
                /\ (b0 = 244 => b[i + 1] <= 143)
        THEN decoded((b0 - 240) * 262144 + (b[i + 1] - 128) * 4096
                     + (b[i + 2] - 128) * 64 + (b[i + 3] - 128), 4)
        ELSE [ok |-> FALSE, text |-> <<>>, next |-> i]

Utf8Result(st) == [ok |-> st.ok, text |-> st.text]

Utf8Decode(b) ==
    LET Body(k, st) == Utf8Step(b, k, st)
    IN  Utf8Result(ForRange(Body, 0, Len(b), [ok |-> TRUE, text |-> <<>>, next |-> 1]))

\* str.isprintable and the separators of str.split(), on the model's code points
IsPrintable(c) == c \in 32 .. 126 \/ c \in OtherUpper \cup OtherLower
IsSpace(c) == c \in 9 .. 13 \/ c \in 28 .. 32

\* text.split(): the maximal runs of characters that are not separators
SplitStep(c, st) ==
    IF IsSpace(c)
    THEN [word |-> <<>>, acc |-> IF st.word = <<>> THEN st.acc ELSE Append(st.acc, st.word)]
    ELSE [word |-> Append(st.word, c), acc |-> st.acc]

SplitResult(st) == IF st.word = <<>> THEN st.acc ELSE Append(st.acc, st.word)

Split(text) ==
    LET Body(k, st) == SplitStep(text[k + 1], st)
    IN  SplitResult(ForRange(Body, 0, Len(text), [word |-> <<>>, acc |-> <<>>]))

Count(s, P(_)) == Cardinality({i \in 1 .. Len(s) : P(s[i])})

\* fractions <<num, den>>, den > 0
FracLess(a, b) == a[1] * b[2] < b[1] * a[2]
FracPos(a) == a[1] > 0

\* XORCipher._score_plaintext: the score as the fraction <<100 * sum, len>>
ScorePlaintext(text) ==
    IF Len(text) = 0 THEN <<0, 1>>
    ELSE LET IsGood(c) == IsPrintable(c) \/ c \in {10, 13, 9}
             IsBlank(c) == c = 32
             IsCommon(w) == w \in COMMON_WORDS
             printable == Count(text, IsGood) - 5 * (Len(text) - Count(text, IsGood))
             alpha_count == Count(text, IsAlpha)
             space_count == Count(text, IsBlank)
             common_word_count == Count(Split(LowerStr(text)), IsCommon)
             score == printable + alpha_count * 2 + space_count + common_word_count * 10
         IN  <<100 * score, Len(text)>>

\* the score given to a candidate that is not valid UTF-8
InvalidScore == <<-1000, 1>>

\* round(best_score / 100.0, 4) for a positive best score, without the
\* min(1.0, ...)
XorConfidenceUnclamped(best) ==
    IF ~FracPos(best) THEN 0
    ELSE LET q == (best[1] * 100) \div best[2]
             r == (best[1] * 100) % best[2]
         IN  IF 2 * r > best[2] \/ (2 * r = best[2] /\ q % 2 = 1) THEN q + 1 ELSE q

\* min(1.0, best_score / 100.0) cut after 4 decimals instead of rounded
XorConfidenceTruncated(best) ==
    IF ~FracPos(best) THEN 0
    ELSE IF best[1] >= 100 * best[2] THEN 10000
    ELSE (best[1] * 100) \div best[2]

\* round(min(1.0, best_score / 100.0), 4) if best_score > 0 else 0.0, in
\* units of 1/10000
XorConfidence(best) ==
    IF ~FracPos(best) THEN 0
    ELSE IF best[1] >= 100 * best[2] THEN 10000
    ELSE LET q == (best[1] * 100) \div best[2]
             r == (best[1] * 100) % best[2]
         IN  IF 2 * r > best[2] \/ (2 * r = best[2] /\ q % 2 = 1) THEN q + 1 ELSE q

\* a loop body that leaves a candidate that is not valid UTF-8 out of the
\* scores table
XorStepSkipsInvalid(data_bytes, key, st) ==
    LET decrypted_bytes == XorBytesWith(data_bytes, key)
        dec == Utf8Decode(decrypted_bytes)
        score == IF dec.ok THEN ScorePlaintext(dec.text) ELSE InvalidScore
        scored == [st EXCEPT !.scores = (key :> score) @@ @, !.trials = @ + 1]
    IN  IF ~dec.ok THEN [st EXCEPT !.trials = @ + 1]
        ELSE IF FracLess(st.best_score, score)
        THEN [scored EXCEPT
                 !.best_score = score,
                 !.best_key = key,
                 !.best_plaintext = Some([kind |-> "str", val |-> dec.text])]
        ELSE scored

\* the body of the for loop of XORCipher.crack for one key
XorStep(data_bytes, key, st) ==
    LET decrypted_bytes == XorBytesWith(data_bytes, key)
        dec == Utf8Decode(decrypted_bytes)
        score == IF dec.ok THEN ScorePlaintext(dec.text) ELSE InvalidScore
        scored == [st EXCEPT !.scores = (key :> score) @@ @, !.trials = @ + 1]
    IN  IF FracLess(st.best_score, score)
        THEN [scored EXCEPT
                 !.best_score = score,
                 !.best_key = key,
                 !.best_plaintext =
                     IF dec.ok /\ dec.text /= <<>>
                     THEN Some([kind |-> "str", val |-> dec.text])
                     ELSE Some([kind |-> "bytes", val |-> decrypted_bytes])]
        ELSE scored

\* for key in range(256)
XorSearch(data_bytes, st) ==
    LET Body(key, acc) == XorStep(data_bytes, key, acc)
    IN  ForRange(Body, 0, 256, st)

\* bytes.fromhex: [ok, bytes]; ASCII whitespace is skipped between the bytes
HexValue(c) ==
    IF c \in 48 .. 57 THEN c - 48
    ELSE IF c \in 97 .. 102 THEN c - 87
    ELSE IF c \in 65 .. 70 THEN c - 55
    ELSE -1

RECURSIVE FromHexAt(_, _, _)
FromHexAt(text, i, acc) ==
    IF i > Len(text) THEN [ok |-> TRUE, bytes |-> acc]
    ELSE IF text[i] \in {9, 10, 11, 12, 13, 32} THEN FromHexAt(text, i + 1, acc)
    ELSE IF i + 1 <= Len(text) /\ HexValue(text[i]) >= 0 /\ HexValue(text[i + 1]) >= 0
    THEN FromHexAt(text, i + 2, Append(acc, 16 * HexValue(text[i]) + HexValue(text[i + 1])))
    ELSE [ok |-> FALSE, bytes |-> <<>>]

FromHex(text) == FromHexAt(text, 1, <<>>)

\* str.encode('utf-8') on code points below U+10000 that are no surrogates
Utf8EncodeChar(c) ==
    IF c < 128 THEN <<c>>
    ELSE IF c < 2048 THEN <<192 + (c \div 64), 128 + (c % 64)>>
    ELSE <<224 + (c \div 4096), 128 + ((c \div 64) % 64), 128 + (c % 64)>>

RECURSIVE Utf8Encode(_)
Utf8Encode(text) ==
    IF text = <<>> THEN <<>>
    ELSE Utf8EncodeChar(text[1]) \o Utf8Encode(Tail(text))

\* bytes.hex(): two lower-case digits for each byte
HexDigit(d) == IF d < 10 THEN 48 + d ELSE 87 + d

RECURSIVE ToHex(_)
ToHex(bytes) ==
    IF bytes = <<>> THEN <<>>
    ELSE <<HexDigit(bytes[1] \div 16), HexDigit(bytes[1] % 16)>> \o ToHex(Tail(bytes))

\* XORCipher.encrypt for an integer key: [raised, value], value a [kind, val]
XorEncrypt(d, key) ==
    IF key \notin 0 .. 255
    THEN [raised |-> "InvalidKeyError", value |-> [kind |-> "none", val |-> <<>>]]
    ELSE IF d.kind = "str"
    THEN [raised |-> "none",
          value |-> [kind |-> "str", val |-> ToHex(XorBytesWith(Utf8Encode(d.val), key))]]
    ELSE [raised |-> "none",
          value |-> [kind |-> "bytes", val |-> XorBytesWith(d.val, key)]]

\* XORCipher.decrypt for an integer key: a str that is hex is decoded from
\* hex and the result decoded as UTF-8 where that is possible; any other str
\* is encoded as UTF-8 and the result is bytes
XorDecrypt(d, key) ==
    LET h == IF d.kind = "str" THEN FromHex(d.val) ELSE [ok |-> FALSE, bytes |-> d.val]
        data_bytes == IF d.kind = "str" /\ ~h.ok THEN Utf8Encode(d.val) ELSE h.bytes
        r == XorEncrypt([kind |-> "bytes", val |-> data_bytes], key)
        decoded == Utf8Decode(r.value.val)
    IN  IF r.raised /= "none"
        THEN [raised |-> "DecryptionError", value |-> [kind |-> "none", val |-> <<>>]]
        ELSE IF h.ok /\ decoded.ok
        THEN [raised |-> "none", value |-> [kind |-> "str", val |-> decoded.text]]
        ELSE r

\* the search and the result of XORCipher.crack on the bytes of the argument
XorCrackBytes(data_bytes) ==
    IF Len(data_bytes) = 0
    THEN [raised |-> "none", trials |-> 0,
          result |-> Some([success |-> FALSE, key |-> None, plaintext |-> None,
                           confidence |-> 0, method |-> "single_byte_brute_force",
                           attempts |-> 0, error |-> "Empty data"])]
    ELSE LET st == XorSearch(data_bytes,
                       [best_key |-> 0, best_plaintext |-> None, best_score |-> <<-1, 1>>,
                        scores |-> <<>>, trials |-> 0])
         IN  [raised |-> "none", trials |-> st.trials,
              result |-> Some([success |-> FracPos(st.best_score),
                               key |-> Some(st.best_key),
                               plaintext |-> st.best_plaintext,
                               confidence |-> XorConfidence(st.best_score),
                               method |-> "single_byte_brute_force",
                               attempts |-> 256, scores |-> st.scores,
                               best_score |-> st.best_score])]

\* a crack that searches the code points of a string as if they were bytes
XorCrackRawString(d) == XorCrackBytes(d.val)

\* a crack that answers a string that is not hex as it answers empty data
XorCrackLenient(d) ==
    IF d.kind = "str" THEN XorCrackBytes(FromHex(d.val).bytes)
    ELSE XorCrackBytes(d.val)

\* XORCipher.crack: [raised, result, trials]
XorCrack(d) ==
    IF d.kind = "str"
    THEN LET h == FromHex(d.val)
         IN  IF h.ok THEN XorCrackBytes(h.bytes)
             ELSE [raised |-> "ValidationError", result |-> None, trials |-> 0]
    ELSE IF d.kind = "bytes" THEN XorCrackBytes(d.val)
    ELSE [raised |-> "ValidationError", result |-> None, trials |-> 0]

\* a calculate_ioc that counts the letters without upper-casing them
calculate_ioc_case_sensitive(text) ==
    LET filtered_text == SelectSeq(text, IsAlpha)
        n == Len(filtered_text)
        count(c) == Cardinality({i \in 1 .. n : filtered_text[i] = c})
        letters == {filtered_text[i] : i \in 1 .. n}
        RECURSIVE SumOver(_)
        SumOver(S) ==
            IF S = {} THEN 0
            ELSE LET c == CHOOSE x \in S : TRUE
                 IN  count(c) * (count(c) - 1) + SumOver(S \ {c})
    IN  IF n < 2 THEN [raised |-> "ValueError", value |-> FxZero]
        ELSE [raised |-> "none", value |-> FxRound(FxDiv(SumOver(letters), n * (n - 1)), 6)]

(***************************************************************************)
(* utils/math_helpers.py: calculate_ioc                                    *)
(***************************************************************************)
\* [raised, value]: round(sum n_i (n_i - 1) / (N (N - 1)), 6)
calculate_ioc(text) ==
    LET filtered_text == FilterAlphaUpper(text)
        n == Len(filtered_text)
        count(c) == Cardinality({i \in 1 .. n : filtered_text[i] = c})
        letters == {filtered_text[i] : i \in 1 .. n}
        RECURSIVE SumOver(_)
        SumOver(S) ==
            IF S = {} THEN 0
            ELSE LET c == CHOOSE x \in S : TRUE
                 IN  count(c) * (count(c) - 1) + SumOver(S \ {c})
    IN  IF n < 2 THEN [raised |-> "ValueError", value |-> FxZero]
        ELSE [raised |-> "none", value |-> FxRound(FxDiv(SumOver(letters), n * (n - 1)), 6)]

(***************************************************************************)
(* ciphers/vigenere.py                                                     *)
(***************************************************************************)
\* a split that puts every character into the first column
ColumnFirstOnly(text, length, j) == IF j = 0 THEN text ELSE <<>>

\* columns[j], j from 0: the characters at the positions i with i % length = j
Column(text, length, j) ==
    [k \in 1 .. ((Len(text) - j + length - 1) \div length) |-> text[(k - 1) * length + j + 1]]

FxAbs(a) == IF a.hi < 0 THEN FxNeg(a) ELSE a

\* 0.0667
EnglishIoC == Fx(0, 66700000)

\* ioc_sum += ioc; valid_columns += 1, unless calculate_ioc raised
AddIoC(st, ioc) ==
    IF ioc.raised = "none"
    THEN [ioc_sum |-> FxAdd(st.ioc_sum, ioc.value), valid_columns |-> st.valid_columns + 1]
    ELSE st

\* the sum of the IoC of the columns of at least 2 characters and their number
ColumnIoCStep(column, st) ==
    IF Len(column) >= 2 THEN AddIoC(st, calculate_ioc(column)) ELSE st

\* the replacement of the best candidate also by a candidate as close
KeepCloserOrEqual(st, length, score) ==
    IF ~FxLess(st.best_score, score)
    THEN [st EXCEPT !.best_score = score, !.best_length = length]
    ELSE st

\* if score < best_score: best_score = score; best_length = length
KeepCloser(st, length, score) ==
    IF FxLess(score, st.best_score)
    THEN [st EXCEPT !.best_score = score, !.best_length = length]
    ELSE st

\* the end of the body of the for loop of _estimate_key_length
ScoreLength(st, length, cols) ==
    IF cols.valid_columns > 0
    THEN KeepCloser(st, length,
             FxAbs(FxSub(FxDivInt(cols.ioc_sum, cols.valid_columns), EnglishIoC)))
    ELSE st

\* the body of the for loop of _estimate_key_length for one candidate length
EstimateStep(text, length, st) ==
    LET Body(j, acc) == ColumnIoCStep(Column(text, length, j), acc)
    IN  ScoreLength([st EXCEPT !.examined = @ \cup {length}], length,
                    ForRange(Body, 0, length, [ioc_sum |-> FxZero, valid_columns |-> 0]))

Min(a, b) == IF a < b THEN a ELSE b

MAX_KEY_LENGTH == 20

\* the loop of VigenereCipher._estimate_key_length:
\* for length in range(1, min(max_length + 1, len(text) // 2))
EstimateSearch(text, max_length) ==
    LET Body(length, acc) == EstimateStep(text, length, acc)
    IN  ForRange(Body, 1, Min(max_length + 1, Len(text) \div 2),
                 [best_length |-> 1, best_score |-> Inf, examined |-> {}])

\* an estimation that examines the candidate length 1 only
EstimateKeyLengthFirstOnly(text) == EstimateSearch(text, 1).best_length

\* VigenereCipher._estimate_key_length
EstimateKeyLength(text) == EstimateSearch(text, MAX_KEY_LENGTH).best_length

\* VigenereCipher._score_text
VigenereScoreText(text) == ScoreLetters(UpperStr(SelectSeq(text, IsAlpha)))

\* the transform of VigenereCipher.encrypt
VigenereShiftChar(c, key_upper, st) ==
    LET base == IF IsUpper(c) THEN OrdA ELSE OrdLowerA
        shift == key_upper[(st.key_index % Len(key_upper)) + 1] - OrdA
    IN  IF IsAlpha(c)
        THEN [key_index |-> st.key_index + 1,
              result |-> Append(st.result, base + ((c - base + shift) % ALPHABET_SIZE))]
        ELSE [key_index |-> st.key_index, result |-> Append(st.result, c)]

VigenereShift(text, key_upper) ==
    LET Body(k, st) == VigenereShiftChar(text[k + 1], key_upper, st)
    IN  ForRange(Body, 0, Len(text), [key_index |-> 0, result |-> <<>>]).result

\* VigenereCipher.encrypt, for a str and a str key
VigenereEncrypt(text, key) ==
    IF Len(key) = 0 \/ \E i \in 1 .. Len(key) : ~IsAlpha(key[i])
    THEN [raised |-> "InvalidKeyError", value |-> <<>>]
    ELSE [raised |-> "none", value |-> VigenereShift(text, UpperStr(key))]

\* a decrypt that shifts by the key as encrypt does
VigenereDecryptSameShifts(text, key) == VigenereEncrypt(text, key)

\* VigenereCipher.decrypt: encrypt with the key of the negated shifts
VigenereDecrypt(text, key) ==
    LET letters == SelectSeq(key, IsAlpha)
        inverse_key == [i \in 1 .. Len(letters) |->
                           ((ALPHABET_SIZE - (Upper(letters[i]) - OrdA)) % ALPHABET_SIZE) + OrdA]
    IN  VigenereEncrypt(text, inverse_key)

\* 1.0 - score / 500.0 clamped to [0, 1], not rounded
ColumnConfidence(score) ==
    IF score.inf \/ score.hi >= 500 THEN FxZero
    ELSE IF score.hi < 0 THEN FxInt(1)
    ELSE FxSub(FxInt(1), Fx(0, score.hi * 2000000 + (score.lo \div 1000) * 2))

\* a comparison with <=, which moves to a later shift of equal score
KeepLowerOrEqual(st, shift, score) ==
    IF ~FxLess(st.best_score, score)
    THEN [best_score |-> score, best_shift |-> shift]
    ELSE st

\* if score < best_score: best_score = score; best_shift = shift
KeepLower(st, shift, score) ==
    IF FxLess(score, st.best_score)
    THEN [best_score |-> score, best_shift |-> shift]
    ELSE st

\* the inner loop of crack: one shift of one column
ShiftStep(column, shift, st) ==
    KeepLower(st, shift,
        VigenereScoreText([i \in 1 .. Len(column) |->
            ((column[i] - OrdA - shift) % ALPHABET_SIZE) + OrdA]).value)

\* key_chars.append(chr(best_shift + ord('A'))); total_confidence += confidence
AddKeyChar(st, best) ==
    [st EXCEPT !.key_chars = Append(@, best.best_shift + OrdA),
               !.total_confidence = FxAdd(@, ColumnConfidence(best.best_score)),
               !.column_scores = Append(@, best.best_score),
               !.trials = @ + ALPHABET_SIZE]

\* the outer loop of crack: one column
ColumnStep(column, st) ==
    LET Body(shift, acc) == ShiftStep(column, shift, acc)
    IN  IF Len(column) = 0
        THEN [st EXCEPT !.key_chars = Append(@, OrdA), !.empty_columns = @ + 1]
        ELSE AddKeyChar(st, ForRange(Body, 0, ALPHABET_SIZE,
                                     [best_score |-> Inf, best_shift |-> 0]))

\* round(x, 4) of a fixed-point number in [0, 1], in units of 1/10000
Round4(x) == LET r == FxRound(x, 4) IN r.hi * 10000 + r.lo \div 100000

MIN_VIGENERE_LETTERS == 20

\* a result that reports success and leaves the key out
VigenereResultWithoutKey(key_length, st, plaintext) ==
    [raised |-> "none", trials |-> st.trials + 1,
     result |-> Some([success |-> TRUE, key |-> None,
                      plaintext |-> Some(plaintext.value),
                      confidence |->
                          Round4(FxDivInt(st.total_confidence, Len(st.key_chars))),
                      method |-> "friedman_test",
                      attempts |-> key_length * ALPHABET_SIZE,
                      key_length |-> key_length])]

\* the result of crack for the key found and the decryption under it
VigenereResult(key_length, st, plaintext) ==
    IF plaintext.raised /= "none"
    THEN [raised |-> "CrackingError", result |-> None, trials |-> st.trials + 1]
    ELSE [raised |-> "none", trials |-> st.trials + 1,
          result |-> Some([success |-> TRUE, key |-> Some(st.key_chars),
                           plaintext |-> Some(plaintext.value),
                           confidence |->
                               Round4(FxDivInt(st.total_confidence, Len(st.key_chars))),
                           method |-> "friedman_test",
                           attempts |-> key_length * ALPHABET_SIZE,
                           key_length |-> key_length])]

\* steps 3 and 4 of crack: the columns solved, the key reassembled
VigenereDecryptFound(text, key_length, st) ==
    VigenereResult(key_length, st, VigenereDecrypt(text, st.key_chars))

VigenereFailure(note) ==
    [raised |-> "none", trials |-> 0,
     result |-> Some([success |-> FALSE, key |-> None, plaintext |-> None,
                      confidence |-> 0, method |-> "friedman_test",
                      attempts |-> 0, error |-> note])]

\* steps 2 to 4 of crack without the abort on an estimated key length of 1
VigenereSolveAnyLength(text, filtered_text, key_length) ==
    LET Body(j, acc) == ColumnStep(Column(filtered_text, key_length, j), acc)
    IN  VigenereDecryptFound(text, key_length,
            ForRange(Body, 0, key_length,
                     [key_chars |-> <<>>, total_confidence |-> FxZero,
                      column_scores |-> <<>>, empty_columns |-> 0, trials |-> 0]))

\* steps 2 to 4 of crack, for the estimated key length
VigenereSolve(text, filtered_text, key_length) ==
    LET Body(j, acc) == ColumnStep(Column(filtered_text, key_length, j), acc)
    IN  IF key_length = 1
        THEN VigenereFailure("Detected as monoalphabetic cipher, use Caesar instead")
        ELSE VigenereDecryptFound(text, key_length,
                 ForRange(Body, 0, key_length,
                          [key_chars |-> <<>>, total_confidence |-> FxZero,
                           column_scores |-> <<>>, empty_columns |-> 0, trials |-> 0]))

\* a guard that also turns away a text of exactly the minimum length
VigenereCrackTextStrict(text, filtered_text) ==
    IF Len(filtered_text) <= MIN_VIGENERE_LETTERS
    THEN VigenereFailure("Text too short for reliable analysis (minimum 20 letters)")
    ELSE VigenereSolve(text, filtered_text, EstimateKeyLength(filtered_text))

VigenereCrackText(text, filtered_text) ==
    IF Len(filtered_text) < MIN_VIGENERE_LETTERS
    THEN VigenereFailure("Text too short for reliable analysis (minimum 20 letters)")
    ELSE VigenereSolve(text, filtered_text, EstimateKeyLength(filtered_text))

\* VigenereCipher.crack: [raised, result, trials]
VigenereCrack(d) ==
    IF d.kind /= "str"
    THEN [raised |-> "ValidationError", result |-> None, trials |-> 0]
    ELSE VigenereCrackText(d.val, FilterAlphaUpper(d.val))

(***************************************************************************)
(* ciphers/substitution.py                                                 *)
(***************************************************************************)
\* string.ascii_uppercase
ALPHABET == [i \in 1 .. ALPHABET_SIZE |-> OrdA + i - 1]

\* the weights of TRIGRAMS in hundredths
TRIGRAMS ==
       <<84, 72, 69>> :> 181   \* THE
    @@ <<65, 78, 68>> :> 73   \* AND
    @@ <<73, 78, 71>> :> 72   \* ING
    @@ <<72, 69, 82>> :> 36   \* HER
    @@ <<72, 65, 84>> :> 35   \* HAT
    @@ <<72, 73, 83>> :> 34   \* HIS
    @@ <<84, 72, 65>> :> 33   \* THA
    @@ <<69, 82, 69>> :> 31   \* ERE
    @@ <<70, 79, 82>> :> 29   \* FOR
    @@ <<69, 78, 84>> :> 28   \* ENT
    @@ <<73, 79, 78>> :> 28   \* ION
    @@ <<84, 69, 82>> :> 27   \* TER
    @@ <<87, 65, 83>> :> 26   \* WAS
    @@ <<89, 79, 85>> :> 25   \* YOU
    @@ <<73, 84, 72>> :> 24   \* ITH
    @@ <<86, 69, 82>> :> 24   \* VER
    @@ <<65, 76, 76>> :> 23   \* ALL
    @@ <<87, 73, 84, 72>> :> 23   \* WITH
    @@ <<84, 72, 73>> :> 22   \* THI
    @@ <<84, 73, 79>> :> 22   \* TIO
    @@ <<65, 82, 69>> :> 21   \* ARE
    @@ <<72, 69, 83>> :> 21   \* HES
    @@ <<78, 79, 84>> :> 21   \* NOT
    @@ <<79, 78, 84>> :> 20   \* ONT
    @@ <<77, 69, 78>> :> 20   \* MEN
    @@ <<79, 85, 82>> :> 19   \* OUR
    @@ <<72, 69, 78>> :> 19   \* HEN
    @@ <<83, 72, 69>> :> 18   \* SHE
    @@ <<66, 85, 84>> :> 18   \* BUT
    @@ <<79, 77, 69>> :> 18   \* OME
    @@ <<69, 86, 69>> :> 17   \* EVE
    @@ <<87, 72, 73>> :> 17   \* WHI
    @@ <<79, 78, 69>> :> 17   \* ONE
    @@ <<79, 85, 76>> :> 17   \* OUL
    @@ <<69, 67, 84>> :> 17   \* ECT
    @@ <<72, 73, 77>> :> 16   \* HIM
    @@ <<87, 79, 85>> :> 16   \* WOU
    @@ <<83, 65, 78>> :> 16   \* SAN
    @@ <<73, 76, 76>> :> 16   \* ILL
    @@ <<69, 82, 83>> :> 16   \* ERS

\* round(a / b) to the nearest integer, ties to even, for a >= 0 and b > 0
RoundDiv(a, b) ==
    LET q == a \div b
        r == a % b
    IN  IF 2 * r > b \/ (2 * r = b /\ q % 2 = 1) THEN q + 1 ELSE q

\* SubstitutionCipher._score_trigrams: the score as the fraction
\* <<sum of the weights in hundredths, number of trigrams>>
ScoreTrigrams(text) ==
    LET filtered == SelectSeq(UpperStr(text), IsAlpha)
        num_trigrams == Len(filtered) - 2
        weight(i) == LET trigram == SubSeq(filtered, i, i + 2)
                     IN  IF trigram \in DOMAIN TRIGRAMS THEN TRIGRAMS[trigram] ELSE 0
        RECURSIVE SumFrom(_)
        SumFrom(i) == IF i > num_trigrams THEN 0 ELSE weight(i) + SumFrom(i + 1)
    IN  IF Len(text) < 3 \/ Len(filtered) < 3 THEN <<0, 1>>
        ELSE <<SumFrom(1), num_trigrams>>

IsPermutation(key) ==
    /\ Len(key) = ALPHABET_SIZE
    /\ {key[i] : i \in 1 .. Len(key)} = AsciiUpper

\* SubstitutionCipher.encrypt, for a str and a str key
SubstitutionEncrypt(text, key) ==
    LET key_upper == UpperStr(key)
        translate(c) ==
            IF c \in AsciiUpper THEN key_upper[c - OrdA + 1]
            ELSE IF c \in AsciiLower THEN Lower(key_upper[c - OrdLowerA + 1])
            ELSE c
    IN  IF Len(key_upper) /= ALPHABET_SIZE
           \/ (\E i \in 1 .. Len(key_upper) : key_upper[i] \notin AsciiUpper)
           \/ Cardinality({key_upper[i] : i \in 1 .. Len(key_upper)}) /= ALPHABET_SIZE
        THEN [raised |-> "InvalidKeyError", value |-> <<>>]
        ELSE [raised |-> "none", value |-> [i \in 1 .. Len(text) |-> translate(text[i])]]

\* SubstitutionCipher.decrypt: encrypt with the inverse permutation.
\* inverse_key[ord(char) - ord('A')] = ALPHABET[i] is an IndexError outside
\* -26 .. 25 and for i >= 26; a negative index counts from the end.
SubstitutionDecrypt(text, key) ==
    LET key_upper == UpperStr(key)
        n == Len(key_upper)
        index(c) == IF c - OrdA < 0 THEN c - OrdA + ALPHABET_SIZE ELSE c - OrdA
        writers(k) == {i \in 1 .. n : index(key_upper[i]) = k}
        last(k) == CHOOSE i \in writers(k) : \A j \in writers(k) : j <= i
        inverse_key == [k \in 1 .. ALPHABET_SIZE |->
                           IF writers(k - 1) = {} THEN 0 ELSE ALPHABET[last(k - 1)]]
    IN  IF n > ALPHABET_SIZE
           \/ \E i \in 1 .. n : key_upper[i] - OrdA \notin -ALPHABET_SIZE .. ALPHABET_SIZE - 1
        THEN [raised |-> "IndexError", value |-> <<>>]
        ELSE SubstitutionEncrypt(text, SelectSeq(inverse_key, LAMBDA c : c /= 0))

\* a swap that copies the letter at pos2 to pos1 and loses the one at pos1
SwapPositionsCopy(key, pos1, pos2) == [key EXCEPT ![pos1 + 1] = key[pos2 + 1]]

\* key_list[pos1], key_list[pos2] = key_list[pos2], key_list[pos1]
SwapPositions(key, pos1, pos2) ==
    [key EXCEPT ![pos1 + 1] = key[pos2 + 1], ![pos2 + 1] = key[pos1 + 1]]

ITERATIONS == 2000

MIN_SUBSTITUTION_LETTERS == 50

STALL_LIMIT == 100

\* min(1.0, max(0.0, best_score / 200.0)) cut after 4 decimals instead of
\* rounded
TrigramConfidenceTruncated(score) ==
    IF score[1] <= 0 THEN 0
    ELSE IF score[1] >= 200 * score[2] THEN 10000
    ELSE (50 * score[1]) \div score[2]

\* round(min(1.0, max(0.0, best_score / 200.0)), 4) in units of 1/10000
TrigramConfidence(score) ==
    IF score[1] <= 0 THEN 0
    ELSE IF score[1] >= 200 * score[2] THEN 10000
    ELSE RoundDiv(50 * score[1], score[2])

\* confidence > 0.3 for confidence = min(1.0, max(0.0, best_score / 200.0))
TrigramSuccess(score) == score[1] > 60 * score[2]

(***************************************************************************)
(* The arguments crack() is called with.                                   *)
(***************************************************************************)
MaxTextLen == 3

\* 'A', 'z', ' ', e-acute
TextChars == {65, 122, 32, 233}

RECURSIVE SeqsUpTo(_, _)
SeqsUpTo(S, n) ==
    IF n = 0 THEN {<<>>}
    ELSE LET shorter == SeqsUpTo(S, n - 1)
         IN  shorter \cup {Append(s, c) : s \in {t \in shorter : Len(t) = n - 1}, c \in S}

Take(s, n) == SubSeq(s, 1, n)

\* the shortest prefix of s with n alphabetic characters (s if it has fewer)
RECURSIVE PrefixWithLetters(_, _)
PrefixWithLetters(s, n) ==
    IF Len(s) = 0 \/ Len(SelectSeq(s, IsAlpha)) < n
       \/ (Len(SelectSeq(s, IsAlpha)) = n /\ IsAlpha(s[Len(s)]))
    THEN s
    ELSE PrefixWithLetters(Take(s, Len(s) - 1), n)

\* s repeated n times
RECURSIVE Repeat(_, _)
Repeat(s, n) == IF n = 0 THEN <<>> ELSE s \o Repeat(s, n - 1)

ShortTexts == SeqsUpTo(TextChars, MaxTextLen)

\* "THE QUICK BROWN FOX JUMPS OVER THE LAZY DOG"
QuickFox ==
    <<84, 72, 69, 32, 81, 85, 73, 67, 75, 32, 66, 82, 79, 87, 78, 32,
      70, 79, 88, 32, 74, 85, 77, 80, 83, 32, 79, 86, 69, 82, 32, 84,
      72, 69, 32, 76, 65, 90, 89, 32, 68, 79, 71>>

\* CaesarCipher().encrypt(QuickFox, key=7)
QuickFoxShift7 ==
    <<65, 79, 76, 32, 88, 66, 80, 74, 82, 32, 73, 89, 86, 68, 85, 32,
      77, 86, 69, 32, 81, 66, 84, 87, 90, 32, 86, 67, 76, 89, 32, 65,
      79, 76, 32, 83, 72, 71, 70, 32, 75, 86, 78>>

StrArg(s) == [kind |-> "str", val |-> s]
BytesArg(s) == [kind |-> "bytes", val |-> s]

\* "AN": the shifts s and s + 13 give the same letters, hence equal scores
TieSample == <<65, 78>>

CaesarInputs == {StrArg(s) : s \in ShortTexts \cup {QuickFox, QuickFoxShift7, TieSample}}

MaxXorLen == 2

\* NUL, ' ', TAB, a continuation byte, '1': no two of them differ in bit 6
\* alone, so every candidate of the search is ASCII or not valid UTF-8
XorBytes == {0, 32, 9, 128, 49}

\* 16 bytes whose best candidate scores 87.5
XorSample16 == <<0, 8, 16, 24, 64, 72, 80, 88, 32, 40, 48, 56, 96, 104, 112, 120>>

\* 33 bytes whose best candidate scores 2700 / 33 = 81.8181...
XorSample33 ==
    <<0, 4, 32, 8, 72, 64, 104, 24, 84, 116, 120, 124, 112, 28, 80, 56,
      88, 16, 108, 76, 48, 68, 96, 92, 40, 100, 12, 20, 36, 60, 52, 44,
      109>>

\* 'B' and U+100000 under key 128: the candidates that decode hold a
\* code point that is not printable and score -100
XorSampleUnprintable == <<194, 116, 0, 0, 0>>

MaxHexLen == 3

\* '2', '0', 'g', ' '
HexChars == {50, 48, 103, 32}

XorInputs ==
    {BytesArg(s) : s \in SeqsUpTo(XorBytes, MaxXorLen)
                        \cup {XorSample16, XorSample33, XorSampleUnprintable}}
    \cup {StrArg(s) : s \in SeqsUpTo(HexChars, MaxHexLen)}

\* VigenereCipher().encrypt("attack at dawn, the enemy is near", "LEMON")
VigenereSample ==
    <<108, 120, 102, 111, 112, 118, 32, 101, 102, 32, 114, 110, 104, 114, 44, 32,
      102, 118, 114, 32, 112, 114, 113, 97, 108, 32, 116, 119, 32, 122, 115, 110,
      99>>

\* the numbers of letters around the guard of VigenereCipher.crack
VigenereLetterCounts == {MIN_VIGENERE_LETTERS - 1, MIN_VIGENERE_LETTERS, MIN_VIGENERE_LETTERS + 1}

\* "QVJDIWDIWDIWDVWQVWDVWQVJ": the estimated key length is 4 and the last
\* column, "DDDQQQ", scores equally at the shifts 3 and 16
VigenereTieSample ==
    <<81, 86, 74, 68, 73, 87, 68, 73, 87, 68, 73, 87, 68, 86, 87, 81,
     86, 87, 68, 86, 87, 81, 86, 74>>

\* "attack at dawn, the enemy is near", the plaintext of VigenereSample
AttackAtDawn ==
    <<97, 116, 116, 97, 99, 107, 32, 97, 116, 32, 100, 97, 119, 110, 44, 32,
     116, 104, 101, 32, 101, 110, 101, 109, 121, 32, 105, 115, 32, 110, 101, 97,
     114>>

\* Caesar encryptions of AttackAtDawn: ciphertexts of period 1, 26 letters
CaesarShiftedTexts == {CaesarEncrypt(AttackAtDawn, 3).value, CaesarEncrypt(AttackAtDawn, 7).value}

\* VigenereCipher().encrypt("THE QUICK BROWN FOX JUMPS OVER THE LAZY DOG " * 3, "LEMON")
LemonSample == VigenereEncrypt(Repeat(Append(QuickFox, 32), 3), <<76, 69, 77, 79, 78>>).value

\* "ABCDEFGHIJAKLMNOPQRS": 20 letters, the two A ten positions apart
PeriodTenSample ==
    <<65, 66, 67, 68, 69, 70, 71, 72, 73, 74, 65, 75, 76, 77, 78, 79, 80, 81, 82, 83>>

VigenereInputs ==
    {StrArg(s) : s \in ShortTexts}
    \cup {StrArg(PrefixWithLetters(VigenereSample, n)) : n \in VigenereLetterCounts}
    \cup {StrArg(Repeat(<<65>>, MIN_VIGENERE_LETTERS))}
    \cup {StrArg(VigenereTieSample)}
    \cup {StrArg(s) : s \in CaesarShiftedTexts}
    \cup {StrArg(LemonSample)}
    \cup {StrArg(PeriodTenSample), StrArg(PrefixWithLetters(LemonSample, 2 * MAX_KEY_LENGTH))}

\* "THE THE THE ..." and "AND AND AND ...", 17 words
TheText == Repeat(<<84, 72, 69, 32>>, 17)
AndText == Repeat(<<65, 78, 68, 32>>, 17)

\* the numbers of letters around the guard of SubstitutionCipher.crack
SubstitutionLetterCounts ==
    {MIN_SUBSTITUTION_LETTERS - 1, MIN_SUBSTITUTION_LETTERS, MIN_SUBSTITUTION_LETTERS + 1}

SubstitutionInputs ==
    {StrArg(s) : s \in ShortTexts}
    \cup {StrArg(PrefixWithLetters(TheText, n)) : n \in SubstitutionLetterCounts}
    \cup {StrArg(AndText)}

\* the outcomes of random.shuffle that are followed: the identity and the
\* identity with 'H' and 'T' exchanged
InitialKeys == {ALPHABET, SwapPositions(ALPHABET, 7, 19)}

\* the outcomes of random.sample(range(26), 2) that are followed
SwapPairs == {<<7, 19>>, <<19, 7>>}

InputsOf(c) ==
    CASE c = "caesar" -> CaesarInputs
      [] c = "xor" -> XorInputs
      [] c = "vigenere" -> VigenereInputs
      [] c = "substitution" -> SubstitutionInputs

Ciphers == {"caesar", "xor", "vigenere", "substitution"}

(***************************************************************************)
(* The state machine: one call of crack() on one cipher object (the cipher *)
(* objects hold no state between calls).  The searches of the Caesar, XOR  *)
(* and Vigenere crackers draw nothing at random and are one step each; the *)
(* hill climbing of the Substitution cracker is one step per iteration.    *)
(***************************************************************************)
NoKey == <<>>
NoScore == <<0, 1>>

\* the state in which crack() is entered
Called ==
    /\ pc = "call"
    /\ result = None
    /\ raised = "none"
    /\ trials = 0
    /\ best_key = NoKey
    /\ best_score = NoScore
    /\ current_key = NoKey
    /\ current_score = NoScore
    /\ attempts = 0
    /\ no_improvement_count = 0
    /\ iteration = 0

\* SubstitutionCipher.decrypt does not raise on a string and a permutation
\* of the alphabet, so no call of self.decrypt fails
Init ==
    /\ cipher \in Ciphers
    /\ data \in InputsOf(cipher)
    /\ Called
    /\ failures_left = 0

searchVars == <<best_key, best_score, current_key, current_score, attempts,
                no_improvement_count, iteration>>

Return(r) ==
    /\ pc' = "done"
    /\ result' = r.result
    /\ raised' = r.raised
    /\ trials' = r.trials
    /\ UNCHANGED <<cipher, data>>

CaesarCrackCall ==
    /\ pc = "call"
    /\ cipher = "caesar"
    /\ Return(CaesarCrack(data))
    /\ UNCHANGED <<searchVars, failures_left>>

XorCrackCall ==
    /\ pc = "call"
    /\ cipher = "xor"
    /\ Return(XorCrack(data))
    /\ UNCHANGED <<searchVars, failures_left>>

VigenereCrackCall ==
    /\ pc = "call"
    /\ cipher = "vigenere"
    /\ Return(VigenereCrack(data))
    /\ UNCHANGED <<searchVars, failures_left>>

\* the outcomes of a call self.decrypt(text, key) in crack: what
\* SubstitutionCipher.decrypt returns or, while failures are left, an
\* exception; each with the failures left after it
DecryptCalls(text, key, left) ==
    {[dec |-> SubstitutionDecrypt(text, key), failures_left |-> left]}
    \cup (IF left > 0
          THEN {[dec |-> [raised |-> "DecryptionError", value |-> <<>>],
                 failures_left |-> left - 1]}
          ELSE {})

\* SubstitutionCipher.crack up to the for loop
SubstitutionCrackCall ==
    /\ pc = "call"
    /\ cipher = "substitution"
    /\ IF data.kind /= "str"
       THEN /\ Return([raised |-> "ValidationError", result |-> None, trials |-> 0])
            /\ UNCHANGED <<searchVars, failures_left>>
       ELSE IF Len(FilterAlphaUpper(data.val)) < MIN_SUBSTITUTION_LETTERS
       THEN /\ Return([raised |-> "none", trials |-> 0,
                       result |-> Some([success |-> FALSE, key |-> None, plaintext |-> None,
                                        confidence |-> 0, method |-> "hill_climbing",
                                        attempts |-> 0,
                                        error |-> "Text too short for reliable analysis (minimum 50 letters)"])])
            /\ UNCHANGED <<searchVars, failures_left>>
       ELSE \E shuffled \in InitialKeys :
              \E call \in DecryptCalls(data.val, shuffled, failures_left) :
                /\ failures_left' = call.failures_left
                /\ IF call.dec.raised /= "none"
                   THEN /\ Return([raised |-> "CrackingError", result |-> None, trials |-> 1])
                        /\ UNCHANGED searchVars
                   ELSE /\ best_key' = shuffled
                        /\ best_score' = ScoreTrigrams(call.dec.value)
                        /\ current_key' = best_key'
                        /\ current_score' = best_score'
                        /\ attempts' = 0
                        /\ no_improvement_count' = 0
                        /\ iteration' = 0
                        /\ trials' = 1
                        /\ pc' = "loop"
                        /\ UNCHANGED <<cipher, data, result, raised>>

\* a climb that also accepts a candidate whose score equals current_score
ClimbAcceptsEqual(st, new_key, new_score) ==
    LET accepted == ~FracLess(new_score, st.current_score)
        improved == accepted /\ FracLess(st.best_score, new_score)
        stuck == ~accepted /\ st.no_improvement_count + 1 > STALL_LIMIT
    IN  [attempts |-> st.attempts + 1,
         best_key |-> IF improved THEN new_key ELSE st.best_key,
         best_score |-> IF improved THEN new_score ELSE st.best_score,
         current_key |-> IF accepted THEN new_key
                         ELSE IF stuck THEN st.best_key ELSE st.current_key,
         current_score |-> IF accepted THEN new_score
                           ELSE IF stuck THEN st.best_score ELSE st.current_score,
         no_improvement_count |-> IF accepted \/ stuck THEN 0
                                  ELSE st.no_improvement_count + 1]

\* a climb that restarts once the stall counter reaches 100
ClimbRestartsAt100(st, new_key, new_score) ==
    LET accepted == FracLess(st.current_score, new_score)
        improved == accepted /\ FracLess(st.best_score, new_score)
        stuck == ~accepted /\ st.no_improvement_count + 1 >= STALL_LIMIT
    IN  [attempts |-> st.attempts + 1,
         best_key |-> IF improved THEN new_key ELSE st.best_key,
         best_score |-> IF improved THEN new_score ELSE st.best_score,
         current_key |-> IF accepted THEN new_key
                         ELSE IF stuck THEN st.best_key ELSE st.current_key,
         current_score |-> IF accepted THEN new_score
                           ELSE IF stuck THEN st.best_score ELSE st.current_score,
         no_improvement_count |-> IF accepted \/ stuck THEN 0
                                  ELSE st.no_improvement_count + 1]

\* a climb that never replaces best_key and best_score
ClimbKeepsBest(st, new_key, new_score) ==
    LET accepted == FracLess(st.current_score, new_score)
        improved == FALSE
        stuck == ~accepted /\ st.no_improvement_count + 1 > STALL_LIMIT
    IN  [attempts |-> st.attempts + 1,
         best_key |-> IF improved THEN new_key ELSE st.best_key,
         best_score |-> IF improved THEN new_score ELSE st.best_score,
         current_key |-> IF accepted THEN new_key
                         ELSE IF stuck THEN st.best_key ELSE st.current_key,
         current_score |-> IF accepted THEN new_score
                           ELSE IF stuck THEN st.best_score ELSE st.current_score,
         no_improvement_count |-> IF accepted \/ stuck THEN 0
                                  ELSE st.no_improvement_count + 1]

\* a climb that replaces best_score and leaves best_key
ClimbStaleBestKey(st, new_key, new_score) ==
    LET accepted == FracLess(st.current_score, new_score)
        improved == accepted /\ FracLess(st.best_score, new_score)
        stuck == ~accepted /\ st.no_improvement_count + 1 > STALL_LIMIT
    IN  [attempts |-> st.attempts + 1,
         best_key |-> st.best_key,
         best_score |-> IF improved THEN new_score ELSE st.best_score,
         current_key |-> IF accepted THEN new_key
                         ELSE IF stuck THEN st.best_key ELSE st.current_key,
         current_score |-> IF accepted THEN new_score
                           ELSE IF stuck THEN st.best_score ELSE st.current_score,
         no_improvement_count |-> IF accepted \/ stuck THEN 0
                                  ELSE st.no_improvement_count + 1]

\* the if/else of the loop body and the restart: the candidate new_key, scored
\* new_score, against the climb st
Climb(st, new_key, new_score) ==
    LET accepted == FracLess(st.current_score, new_score)
        improved == accepted /\ FracLess(st.best_score, new_score)
        stuck == ~accepted /\ st.no_improvement_count + 1 > STALL_LIMIT
    IN  [attempts |-> st.attempts + 1,
         best_key |-> IF improved THEN new_key ELSE st.best_key,
         best_score |-> IF improved THEN new_score ELSE st.best_score,
         current_key |-> IF accepted THEN new_key
                         ELSE IF stuck THEN st.best_key ELSE st.current_key,
         current_score |-> IF accepted THEN new_score
                           ELSE IF stuck THEN st.best_score ELSE st.current_score,
         no_improvement_count |-> IF accepted \/ stuck THEN 0
                                  ELSE st.no_improvement_count + 1]

\* a try of the loop body that counts the iteration whose decrypt raised
ScoreCandidateCountsFailure(st, new_key, dec) ==
    IF dec.raised /= "none" THEN [st EXCEPT !.attempts = @ + 1]
    ELSE Climb(st, new_key, ScoreTrigrams(dec.value))

\* the try of the loop body: an exception of decrypt skips the iteration
ScoreCandidate(st, new_key, dec) ==
    IF dec.raised /= "none" THEN st
    ELSE Climb(st, new_key, ScoreTrigrams(dec.value))

\* the body of the for loop of SubstitutionCipher.crack for the sample
\* (pos1, pos2) and the outcome dec of self.decrypt(data, new_key)
IterateStep(st, pos1, pos2, dec) ==
    ScoreCandidate(st, SwapPositions(st.current_key, pos1, pos2), dec)

\* one iteration of the for loop of SubstitutionCipher.crack
SubstitutionIterate ==
    /\ pc = "loop"
    /\ iteration < ITERATIONS
    /\ \E pair \in SwapPairs :
        \E call \in DecryptCalls(data.val, SwapPositions(current_key, pair[1], pair[2]),
                                 failures_left) :
         \E st \in {IterateStep(
                        [best_key |-> best_key, best_score |-> best_score,
                         current_key |-> current_key, current_score |-> current_score,
                         attempts |-> attempts,
                         no_improvement_count |-> no_improvement_count],
                        pair[1], pair[2], call.dec)} :
           /\ failures_left' = call.failures_left
           /\ best_key' = st.best_key
           /\ best_score' = st.best_score
           /\ current_key' = st.current_key
           /\ current_score' = st.current_score
           /\ attempts' = st.attempts
           /\ no_improvement_count' = st.no_improvement_count
    /\ iteration' = iteration + 1
    /\ trials' = trials + 1
    /\ UNCHANGED <<cipher, data, pc, result, raised>>

\* an end of crack that returns a result without plaintext when the last
\* decrypt raises
SubstitutionReturnPartial ==
    /\ pc = "loop"
    /\ iteration = ITERATIONS
    /\ \E call \in DecryptCalls(data.val, best_key, failures_left) :
        /\ failures_left' = call.failures_left
        /\ Return([raised |-> "none", trials |-> trials + 1,
                   result |-> Some([success |-> FALSE,
                                    key |-> Some(best_key),
                                    plaintext |-> IF call.dec.raised /= "none" THEN None
                                                  ELSE Some(call.dec.value),
                                    confidence |-> TrigramConfidence(best_score),
                                    method |-> "hill_climbing",
                                    attempts |-> attempts,
                                    best_score |-> best_score,
                                    iterations |-> ITERATIONS])])
    /\ UNCHANGED searchVars

\* SubstitutionCipher.crack after the for loop
SubstitutionReturn ==
    /\ pc = "loop"
    /\ iteration = ITERATIONS
    /\ \E call \in DecryptCalls(data.val, best_key, failures_left) :
        /\ failures_left' = call.failures_left
        /\ IF call.dec.raised /= "none"
           THEN Return([raised |-> "CrackingError", result |-> None, trials |-> trials + 1])
           ELSE Return([raised |-> "none", trials |-> trials + 1,
                        result |-> Some([success |-> TrigramSuccess(best_score),
                                         key |-> Some(best_key),
                                         plaintext |-> Some(call.dec.value),
                                         confidence |-> TrigramConfidence(best_score),
                                         method |-> "hill_climbing",
                                         attempts |-> attempts,
                                         best_score |-> best_score,
                                         iterations |-> ITERATIONS])])
    /\ UNCHANGED searchVars

Next ==
    \/ CaesarCrackCall
    \/ XorCrackCall
    \/ VigenereCrackCall
    \/ SubstitutionCrackCall
    \/ SubstitutionIterate
    \/ SubstitutionReturn

Spec == Init /\ [][Next]_vars

InitCaesar == Init /\ cipher = "caesar"
SpecCaesar == InitCaesar /\ [][CaesarCrackCall]_vars

(***************************************************************************)
(* utils/math_helpers.py called on its own: data holds the arguments,      *)
(* result the value returned, raised the exception.                        *)
(***************************************************************************)
MaxVectorLen == 2
MaxObserved == 3

\* expected values 0.0, 1.0, 2.0, 3.0, 0.5 and 1.5 as <<num, den>>
ExpectedValues == {<<0, 1>>, <<1, 1>>, <<2, 1>>, <<3, 1>>, <<1, 2>>, <<3, 2>>}

ChiSquaredInputs ==
    {[kind |-> "vectors", val |-> [observed |-> o, expected |-> e]] :
        o \in SeqsUpTo(0 .. MaxObserved, MaxVectorLen),
        e \in SeqsUpTo(ExpectedValues, MaxVectorLen)}

\* a call of a function of math_helpers returns a value or raises
ReturnValue(r) ==
    /\ pc' = "done"
    /\ result' = IF r.raised = "none" THEN Some(r.value) ELSE None
    /\ raised' = r.raised
    /\ UNCHANGED <<cipher, data, trials, searchVars, failures_left>>

ChiSquaredCall ==
    /\ pc = "call"
    /\ cipher = "chi_squared"
    /\ ReturnValue(chi_squared(data.val.observed, data.val.expected))

InitChiSquared ==
    /\ cipher = "chi_squared"
    /\ data \in ChiSquaredInputs
    /\ Called
    /\ failures_left = 0

MaxIocLen == 4

\* 'A', 'a', 'B', 'b', '1', ' '
IocChars == {65, 97, 66, 98, 49, 32}

CalculateIocInputs == {[kind |-> "str", val |-> s] : s \in SeqsUpTo(IocChars, MaxIocLen)}

CalculateIocCall ==
    /\ pc = "call"
    /\ cipher = "calculate_ioc"
    /\ ReturnValue(calculate_ioc(data.val))

InitCalculateIoc ==
    /\ cipher = "calculate_ioc"
    /\ data \in CalculateIocInputs
    /\ Called
    /\ failures_left = 0

SpecCalculateIoc == InitCalculateIoc /\ [][CalculateIocCall]_vars

SpecChiSquared == InitChiSquared /\ [][ChiSquaredCall]_vars

(***************************************************************************)
(* encrypt followed by decrypt with the same key: data holds the text and  *)
(* the key, result the value the last call returned.                       *)
(***************************************************************************)
MaxRoundTripLen == 2

\* 'A', 'z', 'n', ' '
RoundTripChars == {65, 122, 110, 32}

\* QWERTYUIOPASDFGHJKLZXCVBNM
QwertyKey ==
    <<81, 87, 69, 82, 84, 89, 85, 73, 79, 80, 65, 83, 68,
      70, 71, 72, 74, 75, 76, 90, 88, 67, 86, 66, 78, 77>>

\* the valid keys: 0 .. 25, the keywords "A", "z", "Key", "bZ", three
\* permutations (one in lower case), 0 .. 255
KeysOf(c) ==
    IF c = "caesar" THEN 0 .. ALPHABET_SIZE - 1
    ELSE IF c = "vigenere" THEN {<<65>>, <<122>>, <<75, 101, 121>>, <<98, 90>>}
    ELSE IF c = "substitution" THEN InitialKeys \cup {QwertyKey, LowerStr(QwertyKey)}
    ELSE 0 .. 255

RoundTripInputs(c) ==
    {[kind |-> "str", val |-> s, key |-> k] :
        s \in SeqsUpTo(RoundTripChars, MaxRoundTripLen), k \in KeysOf(c)}

\* cipher.encrypt(text, key) and cipher.decrypt(text, key): [raised, value]
AsStr(r) == [raised |-> r.raised, value |-> StrArg(r.value)]

Encrypt(c, d, key) ==
    IF c = "caesar" THEN AsStr(CaesarEncrypt(d.val, key))
    ELSE IF c = "vigenere" THEN AsStr(VigenereEncrypt(d.val, key))
    ELSE IF c = "substitution" THEN AsStr(SubstitutionEncrypt(d.val, key))
    ELSE XorEncrypt(d, key)

Decrypt(c, d, key) ==
    IF c = "caesar" THEN AsStr(CaesarDecrypt(d.val, key))
    ELSE IF c = "vigenere" THEN AsStr(VigenereDecrypt(d.val, key))
    ELSE IF c = "substitution" THEN AsStr(SubstitutionDecrypt(d.val, key))
    ELSE XorDecrypt(d, key)

EncryptCall ==
    /\ pc = "call"
    /\ \E r \in {Encrypt(cipher, data, data.key)} :
        /\ pc' = IF r.raised = "none" THEN "encrypted" ELSE "done"
        /\ result' = IF r.raised = "none" THEN Some(r.value) ELSE None
        /\ raised' = r.raised
    /\ UNCHANGED <<cipher, data, trials, searchVars, failures_left>>

DecryptCall ==
    /\ pc = "encrypted"
    /\ ReturnValue(Decrypt(cipher, result[1], data.key))

InitRoundTrip ==
    /\ cipher \in Ciphers
    /\ data \in RoundTripInputs(cipher)
    /\ Called
    /\ failures_left = 0

SpecRoundTrip == InitRoundTrip /\ [][EncryptCall \/ DecryptCall]_vars

InitVigenere == Init /\ cipher = "vigenere"
SpecVigenere == InitVigenere /\ [][VigenereCrackCall]_vars

InitSubstitution == Init /\ cipher = "substitution"
SpecSubstitution ==
    InitSubstitution
    /\ [][SubstitutionCrackCall \/ SubstitutionIterate \/ SubstitutionReturn]_vars

\* how many calls of self.decrypt are made to raise, where a decrypt that
\* can fail is put in the place of SubstitutionCipher.decrypt
MaxDecryptFailures == 2

\* crack() of a SubstitutionCipher whose decrypt may raise, on the texts of
\* at most 50 letters
InitFailingDecrypt ==
    /\ cipher = "substitution"
    /\ data \in {d \in SubstitutionInputs :
                    Len(FilterAlphaUpper(d.val)) <= MIN_SUBSTITUTION_LETTERS}
    /\ Called
    /\ failures_left = MaxDecryptFailures

SpecFailingDecrypt ==
    InitFailingDecrypt
    /\ [][SubstitutionCrackCall \/ SubstitutionIterate \/ SubstitutionReturn]_vars

InitXor == Init /\ cipher = "xor"
SpecXor == InitXor /\ [][XorCrackCall]_vars

(***************************************************************************)
(* Properties of the results of crack()                                    *)
(***************************************************************************)
\* crack() has returned a result
Returned == pc = "done" /\ raised = "none" /\ result /= None

\* the bytes XORCipher.crack works on
XorDataBytes == IF data.kind = "str" THEN FromHex(data.val).bytes ELSE data.val

\* the guard result: no success, no attempt, no trial decryption, no search
ShortCircuited ==
    /\ Returned
    /\ ~result[1].success
    /\ result[1].attempts = 0
    /\ "error" \in DOMAIN result[1]
    /\ trials = 0
    /\ iteration = 0

HasNote(r, note) == "error" \in DOMAIN r /\ r.error = note

\* C1: a result with success = false carries neither a key nor a plaintext
\* (both are null), for all four crackers
C1_FailureCarriesNoKeyNoPlaintext ==
    (Returned /\ ~result[1].success)
        => (result[1].key = None /\ result[1].plaintext = None)

\* the XOR search in which no candidate scores above the initial -1 reports
\* the key 0 it started from
C1_XorPlaceholderKey ==
    /\ Returned
    /\ cipher = "xor"
    /\ ~result[1].success
    /\ result[1].key = Some(0)
    /\ result[1].plaintext = None

\* C2: a result with success = true carries a key and a plaintext, for all
\* four crackers
C2_SuccessCarriesKeyAndPlaintext ==
    (Returned /\ result[1].success)
        => (result[1].key /= None /\ result[1].plaintext /= None)

C2_VigenereSuccess ==
    /\ Returned
    /\ cipher = "vigenere"
    /\ result[1].success
    /\ Len(result[1].key[1]) = result[1].key_length
    /\ result[1].plaintext /= None

C4_ConfidenceInUnitInterval ==
    Returned => result[1].confidence \in 0 .. 10000

\* an XOR result whose best score is above 100
C4_XorScoreAbove100 ==
    /\ Returned
    /\ cipher = "xor"
    /\ "best_score" \in DOMAIN result[1]
    /\ FracLess(<<100, 1>>, result[1].best_score)
    /\ result[1].confidence = 10000

C7_QuickFoxShift7Recovered ==
    (pc = "done" /\ cipher = "caesar" /\ data = StrArg(CaesarEncrypt(QuickFox, 7).value))
        => /\ Returned
           /\ result[1].success
           /\ result[1].key = Some(7)
           /\ result[1].plaintext = Some(QuickFox)
           /\ result[1].confidence > 5000
           /\ FxLess(result[1].scores[7], FxInt(250))
           /\ FxLess(result[1].best_chi_squared, FxInt(250))

C7_QuickFoxShift7Cracked ==
    /\ Returned
    /\ cipher = "caesar"
    /\ data = StrArg(CaesarEncrypt(QuickFox, 7).value)
    /\ data.val /= QuickFox
    /\ result[1].key = Some(7)
    /\ result[1].confidence = 7814

C9_ReportedKeyDecodes ==
    (Returned /\ cipher = "xor" /\ XorDataBytes /= <<>>)
        => (result[1].key = None
            \/ result[1].scores[result[1].key[1]] /= InvalidScore)

\* every candidate failed to decode and key 0 is reported
C9_AllCandidatesFailed ==
    /\ Returned
    /\ cipher = "xor"
    /\ XorDataBytes /= <<>>
    /\ \A k \in 0 .. 255 : result[1].scores[k] = InvalidScore
    /\ result[1].key = Some(0)

\* C10 as stated: success is true exactly when the best score is above 0,
\* and confidence is exactly min(1, best_score / 100) for a positive best
\* score and 0 otherwise
C10_ConfidenceExact ==
    (Returned /\ cipher = "xor" /\ XorDataBytes /= <<>>)
        => /\ result[1].success = (result[1].best_score[1] > 0)
           /\ IF result[1].best_score[1] <= 0 THEN result[1].confidence = 0
              ELSE IF result[1].best_score[1] >= 100 * result[1].best_score[2]
              THEN result[1].confidence = 10000
              ELSE result[1].confidence * result[1].best_score[2]
                       = 100 * result[1].best_score[1]

\* C10: success is true exactly when the best score is above 0, and
\* confidence is min(1, best_score / 100) rounded to 4 decimal places for a
\* positive best score and 0 otherwise
C10_ConfidenceRounded ==
    (Returned /\ cipher = "xor" /\ XorDataBytes /= <<>>)
        => /\ result[1].success = (result[1].best_score[1] > 0)
           /\ IF result[1].best_score[1] <= 0 THEN result[1].confidence = 0
              ELSE IF result[1].best_score[1] >= 100 * result[1].best_score[2]
              THEN result[1].confidence = 10000
              ELSE /\ 2 * (result[1].confidence * result[1].best_score[2]
                           - 100 * result[1].best_score[1]) <= result[1].best_score[2]
                   /\ 2 * (100 * result[1].best_score[1]
                           - result[1].confidence * result[1].best_score[2])
                          <= result[1].best_score[2]

\* a positive best score below 100 that has more than 4 decimals
C10_RoundingApplied ==
    /\ Returned
    /\ cipher = "xor"
    /\ XorDataBytes /= <<>>
    /\ result[1].success
    /\ result[1].best_score[1] < 100 * result[1].best_score[2]
    /\ result[1].confidence * result[1].best_score[2] /= 100 * result[1].best_score[1]

\* C11: XOR crack turns a hex string into bytes before the search, so the
\* result is the one of the search on those bytes; on a string that is not
\* hex it raises ValidationError before any of the 256 trials and returns
\* no result
C11_HexConvertedBeforeSearch ==
    (pc = "done" /\ cipher = "xor" /\ data.kind = "str")
        => IF FromHex(data.val).ok
           THEN /\ raised = "none"
                /\ result = XorCrackBytes(FromHex(data.val).bytes).result
                /\ trials = IF FromHex(data.val).bytes = <<>> THEN 0 ELSE 256
                /\ (data.val = <<50, 48>>) => result = XorCrackBytes(<<32>>).result
           ELSE /\ raised = "ValidationError"
                /\ result = None
                /\ trials = 0

\* the string "20" searched as the byte 0x20
C11_HexStringSearched ==
    /\ Returned
    /\ cipher = "xor"
    /\ data = StrArg(<<50, 48>>)
    /\ result[1].attempts = 256
    /\ trials = 256

\* the letters VigenereCipher.crack works on
VigenereLetters == FilterAlphaUpper(data.val)

\* C12: whenever the key length estimated by Vigenere crack is 1 the crack
\* returns success = false, no key, no plaintext, attempts = 0 and the note
\* directing to the Caesar cracker, and no column is solved and nothing is
\* decrypted
C12_KeyLengthOneAborts ==
    (pc = "done" /\ cipher = "vigenere" /\ Len(VigenereLetters) >= 20)
        => /\ Returned
           /\ (EstimateKeyLength(VigenereLetters) = 1)
                  <=> HasNote(result[1], "Detected as monoalphabetic cipher, use Caesar instead")
           /\ (EstimateKeyLength(VigenereLetters) = 1)
                  => /\ ~result[1].success
                     /\ result[1].key = None
                     /\ result[1].plaintext = None
                     /\ result[1].attempts = 0
                     /\ result[1].confidence = 0
                     /\ "key_length" \notin DOMAIN result[1]
                     /\ trials = 0

\* a text of 21 letters whose estimated key length is 1
C12_AbortedOnKeyLengthOne ==
    /\ Returned
    /\ cipher = "vigenere"
    /\ Len(VigenereLetters) = 21
    /\ EstimateKeyLength(VigenereLetters) = 1
    /\ HasNote(result[1], "Detected as monoalphabetic cipher, use Caesar instead")

\* the score of a column of the filtered text decrypted with one shift
ColumnShiftScore(column, shift) ==
    VigenereScoreText([i \in 1 .. Len(column) |->
        ((column[i] - OrdA - shift) % ALPHABET_SIZE) + OrdA]).value

\* the letter of the key is the lowest shift of minimal score of the column
LowestMinimalShift(column, letter) ==
    /\ letter \in OrdA .. (OrdA + 25)
    /\ \A j \in 0 .. 25 :
           ~FxLess(ColumnShiftScore(column, j), ColumnShiftScore(column, letter - OrdA))
    /\ \A j \in 0 .. (letter - OrdA - 1) :
           FxLess(ColumnShiftScore(column, letter - OrdA), ColumnShiftScore(column, j))

\* C13: a successful Vigenere result for the estimated key length L has
\* L >= 2, key_length = L, attempts = 26 * L and a key of L uppercase
\* letters, the i-th being the lowest shift of minimal chi-squared score of
\* column i of the filtered text, columns counted from 0
C13_KeyLettersPerColumn ==
    (Returned /\ cipher = "vigenere" /\ result[1].success)
        => /\ EstimateKeyLength(VigenereLetters) >= 2
           /\ result[1].key_length = EstimateKeyLength(VigenereLetters)
           /\ result[1].attempts = 26 * result[1].key_length
           /\ result[1].key /= None
           /\ Len(result[1].key[1]) = result[1].key_length
           /\ \A i \in 0 .. (result[1].key_length - 1) :
                  LowestMinimalShift(Column(VigenereLetters, result[1].key_length, i),
                                     result[1].key[1][i + 1])

\* the key "DDVD", whose last letter is the lower of two shifts of equal score
C13_TieInColumn ==
    /\ Returned
    /\ cipher = "vigenere"
    /\ result[1].success
    /\ result[1].key = Some(<<68, 68, 86, 68>>)
    /\ ColumnShiftScore(Column(VigenereLetters, 4, 3), 3)
           = ColumnShiftScore(Column(VigenereLetters, 4, 3), 16)

\* C14: Vigenere crack of a ciphertext of at least 20 letters whose period
\* is 1 (a Caesar-shifted text) returns success = false with the note to
\* use the Caesar cracker, the estimated key length being 1
C14_PeriodOneDetected ==
    (pc = "done" /\ cipher = "vigenere" /\ Len(VigenereLetters) >= 20
     /\ data.val \in CaesarShiftedTexts \cup {Repeat(<<65>>, 20)})
        => /\ Returned
           /\ ~result[1].success
           /\ HasNote(result[1], "Detected as monoalphabetic cipher, use Caesar instead")
           /\ EstimateKeyLength(VigenereLetters) = 1

\* the Caesar encryption with shift 3 of "attack at dawn, the enemy is near"
\* cracked as a Vigenere ciphertext of key length 2 with the key "DD"
C14_CaesarTextCrackedAsVigenere ==
    /\ Returned
    /\ cipher = "vigenere"
    /\ data.val = CaesarEncrypt(AttackAtDawn, 3).value
    /\ VigenereSample = VigenereEncrypt(AttackAtDawn, <<76, 69, 77, 79, 78>>).value
    /\ result[1].success
    /\ result[1].key_length = 2
    /\ result[1].key = Some(<<68, 68>>)

\* C15: Vigenere crack of the encryption with the keyword "LEMON" of "THE
\* QUICK BROWN FOX JUMPS OVER THE LAZY DOG " repeated 3 times returns
\* success = true and a result with the key_length field, the estimated key
\* length not being 1
C15_LemonKeyLengthReported ==
    (pc = "done" /\ cipher = "vigenere" /\ data.val = LemonSample)
        => /\ Returned
           /\ result[1].success
           /\ "key_length" \in DOMAIN result[1]
           /\ result[1].key_length = EstimateKeyLength(VigenereLetters)
           /\ result[1].key_length > 1

\* the sample of 105 letters cracked with the estimated key length 12
C15_LemonSampleCracked ==
    /\ Returned
    /\ cipher = "vigenere"
    /\ data.val = LemonSample
    /\ Len(VigenereLetters) = 105
    /\ SubSeq(data.val, 1, 9) = <<69, 76, 81, 32, 69, 72, 84, 71, 87>>
    /\ result[1].key_length = 12
    /\ result[1].key = Some(<<88, 88, 87, 78, 71, 67, 80, 76, 76, 76, 76, 76>>)
    /\ result[1].confidence = 9597

\* C16 as stated: for at least 50 letters Substitution crack reports the
\* confidence clamp(0, 1, best_score / 200) exactly, success is true
\* exactly when best_score > 60, and the key and the plaintext are computed
\* from best_key whatever success is
C16_ConfidenceExact ==
    (Returned /\ cipher = "substitution" /\ Len(FilterAlphaUpper(data.val)) >= 50)
        => /\ result[1].success = (best_score[1] > 60 * best_score[2])
           /\ result[1].key = Some(best_key)
           /\ result[1].plaintext = Some(SubstitutionDecrypt(data.val, best_key).value)
           /\ IF best_score[1] <= 0 THEN result[1].confidence = 0
              ELSE IF best_score[1] >= 200 * best_score[2]
              THEN result[1].confidence = 10000
              ELSE result[1].confidence * best_score[2] = 50 * best_score[1]

\* C16: for at least 50 letters Substitution crack reports the confidence
\* clamp(0, 1, best_score / 200) rounded to 4 decimal places, success is
\* true exactly when best_score > 60 (the unrounded confidence is above
\* 0.3), and the key and the plaintext are computed from best_key whatever
\* success is
C16_ConfidenceRounded ==
    (Returned /\ cipher = "substitution" /\ Len(FilterAlphaUpper(data.val)) >= 50)
        => /\ result[1].success = (best_score[1] > 60 * best_score[2])
           /\ result[1].key = Some(best_key)
           /\ result[1].plaintext = Some(SubstitutionDecrypt(data.val, best_key).value)
           /\ IF best_score[1] <= 0 THEN result[1].confidence = 0
              ELSE IF best_score[1] >= 200 * best_score[2]
              THEN result[1].confidence = 10000
              ELSE /\ 2 * (result[1].confidence * best_score[2] - 50 * best_score[1])
                          <= best_score[2]
                   /\ 2 * (50 * best_score[1] - result[1].confidence * best_score[2])
                          <= best_score[2]

\* a result without success that has a key, a plaintext and a confidence
\* that was rounded
C16_FailureWithKeyAndPlaintext ==
    /\ Returned
    /\ cipher = "substitution"
    /\ Len(FilterAlphaUpper(data.val)) >= 50
    /\ ~result[1].success
    /\ result[1].key = Some(best_key)
    /\ result[1].plaintext /= None
    /\ result[1].confidence > 0
    /\ result[1].confidence * best_score[2] /= 50 * best_score[1]

\* the calls of self.decrypt that have raised so far
DecryptFailures == MaxDecryptFailures - failures_left

\* attempts counts the iterations done whose decrypt did not raise
AttemptsCountScored ==
    /\ (cipher = "substitution" /\ pc = "loop")
           => /\ attempts = iteration - DecryptFailures
              /\ attempts \in 0 .. 2000
    /\ (cipher = "substitution" /\ Returned /\ Len(FilterAlphaUpper(data.val)) >= 50)
           => /\ result[1].attempts = 2000 - DecryptFailures
              /\ result[1].attempts \in 0 .. 2000
              /\ (DecryptFailures = 0) => (result[1].attempts = 2000 /\ result[1].attempts > 100)

\* an iteration whose decrypt raised changes nothing but the loop index; any
\* other iteration adds 1 to attempts
FailedIterationSkipped ==
    (pc = "loop" /\ pc' = "loop")
        => IF failures_left' < failures_left
           THEN /\ iteration' = iteration + 1
                /\ UNCHANGED <<attempts, current_key, current_score, best_key,
                               best_score, no_improvement_count>>
           ELSE /\ iteration' = iteration + 1
                /\ attempts' = attempts + 1

\* C17: attempts is the number of the 2000 iterations whose candidate was
\* decrypted and scored; an iteration whose decrypt fails is skipped without
\* a change of attempts, current_key, best_key or the stall counter; so
\* 0 <= attempts <= 2000, and attempts = 2000 when no decrypt fails
C17_AttemptsCountScoredIterations ==
    []AttemptsCountScored /\ [][FailedIterationSkipped]_vars

\* a search that skipped iterations and returned fewer than 2000 attempts
C17_IterationsSkipped ==
    /\ Returned
    /\ cipher = "substitution"
    /\ DecryptFailures > 0
    /\ result[1].attempts = 2000 - DecryptFailures
    /\ iteration = 2000

FailureAbortsOutsideLoop ==
    (failures_left' < failures_left)
        => IF pc = "loop" /\ iteration < ITERATIONS
           THEN pc' = "loop" /\ raised' = "none" /\ result' = None
           ELSE pc' = "done" /\ raised' = "CrackingError" /\ result' = None

\* CrackingError is raised after a failure only, and a crack in which the
\* first and the last decrypt succeed returns a result
CrackingErrorOnlyOnFailure ==
    (cipher = "substitution" /\ pc = "done"
     /\ Len(FilterAlphaUpper(data.val)) >= 50)
        => \/ Returned
           \/ raised = "CrackingError" /\ result = None /\ DecryptFailures > 0

Observed == data.val.observed
Expected == data.val.expected

\* six times the sum of (O_i - E_i)^2 / E_i, an integer since every
\* num * den of ExpectedValues divides 6
RECURSIVE SixChiSquared(_, _, _)
SixChiSquared(observed, expected, i) ==
    IF i = 0 THEN 0
    ELSE (observed[i] * expected[i][2] - expected[i][1])
         * (observed[i] * expected[i][2] - expected[i][1])
         * (6 \div (expected[i][1] * expected[i][2]))
         + SixChiSquared(observed, expected, i - 1)

\* a returned value in millionths
Millionths(x) == x.hi * 1000000 + x.lo \div 1000

ChiSquaredDone == cipher = "chi_squared" /\ pc = "done"
ChiSquaredValid ==
    /\ Len(Observed) = Len(Expected)
    /\ \A i \in 1 .. Len(Expected) : Expected[i][1] /= 0

C19_MismatchedAndZero ==
    /\ ChiSquaredDone
    /\ Len(Observed) /= Len(Expected)
    /\ Len(Observed) > 0
    /\ \E i \in 1 .. Len(Expected) : Expected[i][1] = 0
    /\ raised = "ValueError"

IocLetters == FilterAlphaUpper(data.val)

\* sum n_i (n_i - 1): the ordered pairs of different positions that hold the
\* same letter
SameLetterPairs(letters) ==
    Cardinality({p \in (1 .. Len(letters)) \X (1 .. Len(letters)) :
                    p[1] /= p[2] /\ letters[p[1]] = letters[p[2]]})

CalculateIocDone == cipher = "calculate_ioc" /\ pc = "done"

SwapCase(c) == IF IsLower(c) THEN Upper(c) ELSE Lower(c)

\* text with the case of one letter changed, with one non-alphabetic
\* character inserted, or with one non-alphabetic character removed
IocVariants(text) ==
    {[text EXCEPT ![i] = SwapCase(text[i])] : i \in {j \in 1 .. Len(text) : IsAlpha(text[j])}}
    \cup {SubSeq(text, 1, i) \o <<c>> \o SubSeq(text, i + 1, Len(text)) :
              i \in 0 .. Len(text), c \in {49, 32}}
    \cup {SubSeq(text, 1, i - 1) \o SubSeq(text, i + 1, Len(text)) :
              i \in {j \in 1 .. Len(text) : ~IsAlpha(text[j])}}

C21_RoundTrip ==
    /\ (pc = "done" /\ "key" \in DOMAIN data)
           => (raised = "none" /\ result = Some(StrArg(data.val)))
    /\ (pc = "encrypted" /\ cipher /= "xor")
           => /\ result[1].kind = "str"
              /\ Len(result[1].val) = Len(data.val)
              /\ \A i \in 1 .. Len(data.val) :
                     /\ IsUpper(data.val[i]) <=> IsUpper(result[1].val[i])
                     /\ IsLower(data.val[i]) <=> IsLower(result[1].val[i])
                     /\ ~IsAlpha(data.val[i]) => result[1].val[i] = data.val[i]
    /\ (pc = "encrypted" /\ cipher = "xor")
           => /\ result[1].kind = "str"
              /\ FromHex(result[1].val).ok
              /\ Len(result[1].val) = 2 * Len(data.val)

\* a text of both cases was encrypted to another text by Vigenere with the
\* keyword "Key" and decrypted
C21_VigenereMixedCaseDecrypted ==
    /\ pc = "done"
    /\ cipher = "vigenere"
    /\ "key" \in DOMAIN data
    /\ data.key = <<75, 101, 121>>
    /\ data.val = <<65, 122>>
    /\ result = Some(StrArg(data.val))

\* C22 as stated: for every non-empty ciphertext the key reported by XOR
\* crack has a score that no other key 0..255 exceeds, and it is the lowest
\* of the keys with that score
C22_ReportedKeyIsLowestMaximal ==
    (Returned /\ cipher = "xor" /\ XorDataBytes /= <<>>)
        => /\ result[1].key /= None
           /\ \A k \in 0 .. 255 :
                  ~FracLess(result[1].scores[result[1].key[1]], result[1].scores[k])
           /\ \A k \in 0 .. 255 :
                  k < result[1].key[1]
                      => FracLess(result[1].scores[k], result[1].scores[result[1].key[1]])

\* key 0, whose candidate does not decode, is reported although the
\* candidate of key 128 decodes and scores -100
C22_LowerScoringKeyReported ==
    /\ Returned
    /\ cipher = "xor"
    /\ data = BytesArg(XorSampleUnprintable)
    /\ result[1].key = Some(0)
    /\ result[1].scores[0] = InvalidScore
    /\ result[1].scores[128] = <<-200, 2>>

\* the candidate lengths _estimate_key_length examines on the letters of the
\* argument, and the distance |average column IoC - 0.0667| of one candidate
ExaminedLengths == EstimateSearch(VigenereLetters, MAX_KEY_LENGTH).examined
LengthDistance(text, length) ==
    EstimateStep(text, length, [best_length |-> 0, best_score |-> Inf, examined |-> {}]).best_score

VigenereEstimated ==
    cipher = "vigenere" /\ pc = "done" /\ Len(VigenereLetters) >= MIN_VIGENERE_LETTERS

\* C23 as stated: the key-length estimation on N letters examines exactly
\* the candidate lengths 1 .. min(20, floor(N / 2))
C23_ExaminesUpToHalf ==
    VigenereEstimated
        => ExaminedLengths = 1 .. Min(MAX_KEY_LENGTH, Len(VigenereLetters) \div 2)

\* on the 20 letters of "ABCDEFGHIJAKLMNOPQRS" the candidates 1 .. 9 are
\* examined and 5 is reported, although the candidate 10 is closer
C23_CandidateTenNotExamined ==
    /\ VigenereEstimated
    /\ data = StrArg(PeriodTenSample)
    /\ ExaminedLengths = 1 .. 9
    /\ Returned
    /\ result[1].key_length = 5
    /\ FxLess(LengthDistance(VigenereLetters, 10), LengthDistance(VigenereLetters, 5))

\* C24: the key-length estimation returns an examined candidate whose
\* distance |average column IoC - 0.0667| no examined candidate undercuts,
\* the smallest of the candidates at that distance, and crack reports it
C24_ClosestSmallestLength ==
    VigenereEstimated
        => /\ EstimateKeyLength(VigenereLetters) \in ExaminedLengths
           /\ \A length \in ExaminedLengths :
                  /\ ~FxLess(LengthDistance(VigenereLetters, length),
                             LengthDistance(VigenereLetters, EstimateKeyLength(VigenereLetters)))
                  /\ length < EstimateKeyLength(VigenereLetters)
                         => FxLess(LengthDistance(VigenereLetters,
                                                  EstimateKeyLength(VigenereLetters)),
                                   LengthDistance(VigenereLetters, length))
           /\ (Returned /\ "key_length" \in DOMAIN result[1])
                  => result[1].key_length = EstimateKeyLength(VigenereLetters)

\* an estimation in which a larger candidate is as close as the one returned
C24_TieAtMinimalDistance ==
    /\ VigenereEstimated
    /\ \E length \in ExaminedLengths :
           /\ length > EstimateKeyLength(VigenereLetters)
           /\ LengthDistance(VigenereLetters, length)
                  = LengthDistance(VigenereLetters, EstimateKeyLength(VigenereLetters))

\* the climb of Substitution crack is in its loop
Climbing == cipher = "substitution" /\ pc = "loop"

\* the keys the next iteration can try and the score of a key
CandidateKeys == {SwapPositions(current_key, pair[1], pair[2]) : pair \in SwapPairs}
CandidateScore(key) == ScoreTrigrams(SubstitutionDecrypt(data.val, key).value)

\* an iteration that scored its candidate
ScoredIteration == Climbing /\ iteration' = iteration + 1 /\ attempts' = attempts + 1

StrictAcceptance ==
    ScoredIteration =>
        \E new_key \in CandidateKeys : \E new_score \in {CandidateScore(new_key)} :
            IF FracLess(current_score, new_score)
            THEN /\ current_key' = new_key
                 /\ current_score' = new_score
                 /\ no_improvement_count' = 0
                 /\ IF FracLess(best_score, new_score)
                    THEN best_key' = new_key /\ best_score' = new_score
                    ELSE UNCHANGED <<best_key, best_score>>
            ELSE /\ UNCHANGED <<current_key, current_score, best_key, best_score>>
                 /\ no_improvement_count' \in {no_improvement_count + 1, 0}

\* C25: in every iteration of the Substitution hill climb the candidate
\* replaces current_key and current_score only if its score is strictly
\* greater than current_score; a candidate with an equal or lower score
\* leaves current_key, current_score, best_key and best_score unchanged and
\* counts as a stall (the counter goes up by one, or back to 0 when the
\* restart fires), and best_key and best_score change only on an accepted
\* candidate whose score exceeds best_score
C25_StrictAcceptance == [][StrictAcceptance]_vars

\* a candidate whose score equals current_score was not accepted
C25_EqualCandidateRejected ==
    /\ Climbing
    /\ no_improvement_count > 0
    /\ \E new_key \in CandidateKeys :
           /\ new_key /= current_key
           /\ CandidateScore(new_key) = current_score

\* C26 as stated: the restart fires at the end of the 100th consecutive
\* scored iteration without an accepted improvement, so the stall counter is
\* never above 99 when an iteration begins
C26_RestartAfter100 == Climbing => no_improvement_count <= 99

StallCounted ==
    (ScoredIteration /\ current_key' = current_key /\ current_score' = current_score)
        => no_improvement_count' = IF no_improvement_count = 100 THEN 0
                                   ELSE no_improvement_count + 1

\* C26: the restart fires at the end of the 101st consecutive scored
\* iteration without an accepted improvement (no_improvement_count > 100), so
\* the stall counter is never above 100 when an iteration begins and goes
\* from 100 back to 0
C26_RestartAfter101 ==
    [](Climbing => no_improvement_count <= 100) /\ [][StallCounted]_vars

\* an iteration begins after 100 consecutive iterations without improvement
C26_HundredStalls ==
    /\ Climbing
    /\ iteration < ITERATIONS
    /\ no_improvement_count = 100

\* C27: in the Substitution hill climb current_key = best_key and
\* current_score = best_score at the start and at the end of every iteration
C27_CurrentIsBest ==
    Climbing => (current_key = best_key /\ current_score = best_score)

\* the climb accepted a candidate before any restart
C27_CandidateAccepted ==
    /\ Climbing
    /\ iteration > 0
    /\ iteration <= STALL_LIMIT
    /\ no_improvement_count < iteration
    /\ current_key = best_key
    /\ current_score = best_score

BestScoreGrows ==
    Climbing =>
        /\ ~FracLess(best_score', best_score)
        /\ ScoredIteration
               => \E new_key \in CandidateKeys :
                      ~FracLess(best_score', CandidateScore(new_key))

\* C28: in the Substitution hill climb best_score never decreases, it is
\* always the trigram score of the decryption under best_key, and after each
\* iteration it is at least the score of the candidate of that iteration, so
\* that at the end of the loop it is at least the score of the initial key
\* and of every candidate scored, and it is the score of the key reported
C28_BestScoreIsMaximum ==
    /\ [](Climbing => best_score = CandidateScore(best_key))
    /\ [][BestScoreGrows]_vars
    /\ []((Returned /\ cipher = "substitution" /\ result[1].key /= None)
              => best_score = CandidateScore(result[1].key[1]))

\* the loop ended with a best_score above the score of a key that was scored
C28_AboveScoredKey ==
    /\ Returned
    /\ cipher = "substitution"
    /\ result[1].key /= None
    /\ iteration = ITERATIONS
    /\ \E pair \in SwapPairs :
           FracLess(CandidateScore(SwapPositions(result[1].key[1], pair[1], pair[2])),
                    best_score)

\* the positions at which two keys differ
Differences(a, b) == {i \in 1 .. Len(a) : a[i] /= b[i]}

\* C29: in the Substitution hill climb the initial key, every candidate,
\* current_key and best_key are permutations of the 26 upper-case letters,
\* every candidate differs from current_key in exactly two positions, whose
\* letters are exchanged, and the key of the result is a permutation
C29_KeysArePermutations ==
    /\ Climbing
           => /\ IsPermutation(current_key)
              /\ IsPermutation(best_key)
              /\ \A new_key \in CandidateKeys :
                     /\ IsPermutation(new_key)
                     /\ Cardinality(Differences(new_key, current_key)) = 2
                     /\ \A i, j \in Differences(new_key, current_key) :
                            i /= j => new_key[i] = current_key[j]
    /\ (Returned /\ cipher = "substitution" /\ result[1].key /= None)
           => IsPermutation(result[1].key[1])

\* the result carries a key that is not the alphabet
C29_SwappedKeyReturned ==
    /\ Returned
    /\ cipher = "substitution"
    /\ result[1].key /= None
    /\ result[1].key[1] = SwapPositions(ALPHABET, 7, 19)
    /\ iteration = ITERATIONS

\* C30: in Vigenere crack on at least 20 letters every column of every
\* candidate length examined, and of the length selected, holds at least 2
\* characters and contributes its IoC to the average, and no column is
\* empty: every column of the selected length is tried at 26 shifts, which
\* with the last decrypt makes 26 L + 1 trial decryptions
C30_ColumnsHoldTwoLetters ==
    VigenereEstimated
        => /\ \A length \in ExaminedLengths \cup {EstimateKeyLength(VigenereLetters)} :
                  \A j \in 0 .. length - 1 :
                      /\ Len(Column(VigenereLetters, length, j)) >= 2
                      /\ calculate_ioc(Column(VigenereLetters, length, j)).raised = "none"
           /\ (Returned /\ result[1].key /= None)
                  => /\ Len(result[1].key[1]) = result[1].key_length
                     /\ trials = ALPHABET_SIZE * result[1].key_length + 1

\* 20 letters were cracked; the columns of the longest candidate examined,
\* 9, hold 3 and 2 letters
C30_ShortestColumnsSearched ==
    /\ VigenereEstimated
    /\ Len(VigenereLetters) = MIN_VIGENERE_LETTERS
    /\ 9 \in ExaminedLengths
    /\ Len(Column(VigenereLetters, 9, 8)) = 2
    /\ Returned
    /\ result[1].key /= None
    /\ trials = ALPHABET_SIZE * result[1].key_length + 1

====
